---- MODULE Spec2Model ----
(***************************************************************************)
(* Model of the PocketBase request core of n8n-nodes-pocketbase-extra:     *)
(* getAuthToken (token resolution with the workflow static data as token   *)
(* cache and the admin endpoint fallback) and pocketBaseRequest (request   *)
(* building and dispatch), src/nodes/PocketBase/GenericFunctions.ts.       *)
(*                                                                         *)
(* Representation of JavaScript values                                     *)
(*   undefined           [t |-> "undefined"]                               *)
(*   a number n          [t |-> "number", n |-> n]                         *)
(*   a string            [t |-> "string", s |-> <<...>>]                   *)
(*   an object           [t |-> "object", <key> |-> <value>, ...]          *)
(* A status string is a sequence of characters.  A URL is a sequence of    *)
(* path tokens: the token "/" is one slash, every other token is a maximal *)
(* run of characters without a slash, so startsWith, the trailing-slash    *)
(* strip and concatenation act on tokens as they act on characters.  A     *)
(* token (JWT) is the sequence of its dot-delimited segments, a segment    *)
(* being described by what base64 + JSON.parse makes of it.                *)
(***************************************************************************)
EXTENDS Integers, Sequences, FiniteSets, TLC

\* ------------------------------------------------------------------ bounds
\* the clock runs from 0 to MaxTicks * TickMillis
MaxTicks == 4

\* one clock step, in milliseconds
TickMillis == 10 * 1000

\* ------------------------------------------------------- JavaScript values
Undefined == [t |-> "undefined"]

Num(n) == [t |-> "number", n |-> n]

Str(s) == [t |-> "string", s |-> s]

\* JavaScript truthiness
Truthy(v) ==
  CASE v.t = "undefined" -> FALSE
    [] v.t = "null" -> FALSE
    [] v.t = "boolean" -> v.b
    [] v.t = "number" -> v.n # 0
    [] v.t = "string" -> v.s # <<>>
    [] OTHER -> TRUE

\* o.k, and o?.k when o is undefined
Field(o, k) == IF o.t = "object" /\ k \in DOMAIN o THEN o[k] ELSE Undefined

\* a ?? b ?? ... over a sequence of values: the first that is neither
\* undefined nor null, the last one when all are
RECURSIVE Coalesce(_)
Coalesce(vs) ==
  IF vs = <<>> THEN Undefined
  ELSE IF Len(vs) = 1 \/ Head(vs).t \notin {"undefined", "null"} THEN Head(vs)
  ELSE Coalesce(Tail(vs))

\* { ...a, ...b }: the keys of both, b's value where both have the key
Spread(a, b) ==
  [k \in (DOMAIN a) \cup (DOMAIN b) |-> IF k \in DOMAIN b THEN b[k] ELSE a[k]]

\* the object without one key (rest destructuring)
Without(o, key) == [k \in (DOMAIN o) \ {key} |-> o[k]]

\* the empty object {}
EmptyObject == [k \in {} |-> Undefined]

StartsWith(s, p) == Len(s) >= Len(p) /\ SubSeq(s, 1, Len(p)) = p

\* ---------------------------------------------------------- UrlNormalizer
\* baseUrl.replace(/\/+$/, '')
RECURSIVE normalizeBaseUrl(_)
normalizeBaseUrl(baseUrl) ==
  IF baseUrl # <<>> /\ baseUrl[Len(baseUrl)] = "/"
  THEN normalizeBaseUrl(SubSeq(baseUrl, 1, Len(baseUrl) - 1))
  ELSE baseUrl

\* buildUrl putting /api before every relative endpoint
buildUrlAlwaysPrefixed(baseUrl, endpoint) ==
  IF StartsWith(endpoint, <<"http:", "/", "/">>) \/ StartsWith(endpoint, <<"https:", "/", "/">>)
  THEN endpoint
  ELSE LET cleanEndpoint == IF StartsWith(endpoint, <<"/">>) THEN endpoint ELSE <<"/">> \o endpoint
       IN baseUrl \o <<"/", "api">> \o cleanEndpoint

buildUrl(baseUrl, endpoint) ==
  IF StartsWith(endpoint, <<"http:", "/", "/">>) \/ StartsWith(endpoint, <<"https:", "/", "/">>)
  THEN endpoint
  ELSE LET cleanEndpoint == IF StartsWith(endpoint, <<"/">>) THEN endpoint ELSE <<"/">> \o endpoint
       IN IF StartsWith(cleanEndpoint, <<"/", "api", "/">>)
          THEN baseUrl \o cleanEndpoint
          ELSE baseUrl \o <<"/", "api">> \o cleanEndpoint

\* ------------------------------------------------------------- TokenCache
\* the safety margin of isExpired, in milliseconds
ExpiryMarginMillis == 30000

\* decodeJwtExpiry giving exp as it stands, in seconds
decodeJwtExpirySeconds(token) ==
  LET parts == token IN
  IF Len(parts) < 2 THEN Undefined
  ELSE LET payload == parts[2] IN
       IF payload.parse = "throws" THEN Undefined
       ELSE IF payload.parse = "null" THEN Undefined
       ELSE IF payload.exp.t = "number" THEN Num(payload.exp.n)
       ELSE Undefined

\* decodeJwtExpiry: the second segment, base64-decoded and JSON-parsed; a
\* segment records the outcome of the parse ("throws", or the kind of value)
\* and, for an object, its exp member
decodeJwtExpiry(token) ==
  LET parts == token IN
  IF Len(parts) < 2 THEN Undefined
  ELSE LET payload == parts[2] IN
       IF payload.parse = "throws" THEN Undefined
       ELSE IF payload.parse = "null" THEN Undefined
       ELSE IF payload.exp.t = "number" THEN Num(payload.exp.n * 1000)
       ELSE Undefined

\* isExpired with the comparison >= in place of >
isExpiredAtMargin(expiresAt, t) ==
  IF ~Truthy(expiresAt) THEN FALSE
  ELSE t >= expiresAt.n - ExpiryMarginMillis

\* isExpired taking an entry without expiry for expired
isExpiredWithoutExpiry(expiresAt, t) ==
  IF ~Truthy(expiresAt) THEN TRUE
  ELSE t > expiresAt.n - ExpiryMarginMillis

\* isExpired(expiresAt) at Date.now() = t
isExpired(expiresAt, t) ==
  IF ~Truthy(expiresAt) THEN FALSE
  ELSE t > expiresAt.n - ExpiryMarginMillis

\* ---------------------------------------------------------- getStatusCode
DigitChars == {"0", "1", "2", "3", "4", "5", "6", "7", "8", "9"}

DigitValue(ch) ==
  CASE ch = "0" -> 0 [] ch = "1" -> 1 [] ch = "2" -> 2 [] ch = "3" -> 3
    [] ch = "4" -> 4 [] ch = "5" -> 5 [] ch = "6" -> 6 [] ch = "7" -> 7
    [] ch = "8" -> 8 [] ch = "9" -> 9

\* the value of the leading digits of chars, acc being the value so far
RECURSIVE ParseDigits(_, _)
ParseDigits(chars, acc) ==
  IF chars = <<>> \/ Head(chars) \notin DigitChars THEN acc
  ELSE ParseDigits(Tail(chars), acc * 10 + DigitValue(Head(chars)))

RECURSIVE SkipSpaces(_)
SkipSpaces(chars) ==
  IF chars # <<>> /\ Head(chars) = " " THEN SkipSpaces(Tail(chars)) ELSE chars

\* Number.parseInt(chars, 10) followed by the Number.isFinite test: leading
\* blanks and one sign are skipped, the leading digits are read, and a
\* string without leading digits (NaN) gives undefined
parseIntFinite(chars) ==
  LET trimmed == SkipSpaces(chars)
      negative == trimmed # <<>> /\ Head(trimmed) = "-"
      signed == trimmed # <<>> /\ Head(trimmed) \in {"-", "+"}
      digits == IF signed THEN Tail(trimmed) ELSE trimmed
  IN IF digits = <<>> \/ Head(digits) \notin DigitChars THEN Undefined
     ELSE IF negative THEN Num(0 - ParseDigits(digits, 0))
     ELSE Num(ParseDigits(digits, 0))

getStatusCode(error) ==
  IF error.t # "object" THEN Undefined
  ELSE LET obj == error
           response == Field(obj, "response")
           cause == Field(obj, "cause")
           statusCode == Coalesce(<<Field(obj, "statusCode"), Field(obj, "httpCode"),
                                    Field(obj, "status"),
                                    Field(response, "statusCode"), Field(response, "httpCode"),
                                    Field(response, "status"),
                                    Field(cause, "statusCode"), Field(cause, "httpCode"),
                                    Field(cause, "status")>>)
       IN IF statusCode.t = "number" THEN statusCode
          ELSE IF statusCode.t = "string" THEN parseIntFinite(statusCode.s)
          ELSE Undefined

\* ------------------------------------------------------------------ inputs
Null == [t |-> "null"]

Bool(b) == [t |-> "boolean", b |-> b]

\* a token segment that is not base64 of JSON
Seg(id) == [id |-> id, parse |-> "throws", exp |-> Undefined]

\* a token segment that decodes to a JSON object with the given exp member
Payload(id, exp) == [id |-> id, parse |-> "object", exp |-> exp]

JwtToken(id, exp) == <<Seg("hdr"), Payload(id, exp), Seg("sig")>>

\* tokens a backend may answer a login with: expiring at 40 s, at 60 s, at
\* the epoch, and one without any expiry segment
LoginTokens ==
  {JwtToken("a", Num(40)), JwtToken("b", Num(60)), JwtToken("z", Num(0)), <<Seg("opaque")>>}

\* tokens of every shape of expiry segment: an exp in the future and at the
\* epoch, with and without a third segment, an exp that is a string, no exp
\* member, a segment that is not JSON, JSON null, JSON that is no object, and
\* no second segment
TokenShapes ==
  {JwtToken("a", Num(40)), JwtToken("z", Num(0)),
   <<Seg("hdr"), Payload("b", Num(60))>>,
   <<Seg("hdr"), Payload("s", Str(<<"4", "0">>)), Seg("sig")>>,
   <<Seg("hdr"), Payload("n", Undefined), Seg("sig")>>,
   <<Seg("hdr"), Seg("bad"), Seg("sig")>>,
   <<Seg("hdr"), [id |-> "null", parse |-> "null", exp |-> Undefined], Seg("sig")>>,
   <<Seg("hdr"), [id |-> "five", parse |-> "number", exp |-> Undefined], Seg("sig")>>,
   <<Seg("opaque")>>}

\* bodies a login call may resolve with: nothing, an object without token,
\* an object with an empty token, an object with a token
LoginResponses ==
  {Undefined, [t |-> "object"], [t |-> "object", token |-> Str(<<>>)]}
    \cup {[t |-> "object", token |-> Str(tok)] : tok \in LoginTokens}

StatusError(code) == [t |-> "object", statusCode |-> code]

\* errors a transport call may reject with
TransportErrors ==
  {StatusError(Num(404)), StatusError(Num(405)), StatusError(Num(410)),
   StatusError(Num(500)), StatusError(Num(401)),
   StatusError(Str(<<"4", "0", "4">>)), StatusError(Str(<<"5", "0", "0">>)),
   StatusError(Str(<<"a", "b", "c">>)),
   [t |-> "object", code |-> "ECONNREFUSED"],
   [t |-> "object", response |-> [t |-> "object", status |-> Num(410)]],
   [t |-> "object", cause |-> [t |-> "object", httpCode |-> Num(500)]]}

BaseA == <<"http:", "/", "/", "h">>

BaseB == <<"http:", "/", "/", "g">>

Credential(authType, baseUrl, apiToken, collection, user, pass) ==
  [authType |-> authType, baseUrl |-> baseUrl, apiToken |-> apiToken,
   adminEmail |-> user, adminPassword |-> pass,
   authCollection |-> collection, identity |-> user, password |-> pass]

\* credential configurations: every auth mode, the static token present,
\* empty and absent, base URLs with and without trailing slashes
CredentialConfigs ==
  {Credential("none", BaseA, Undefined, "", "", ""),
   Credential("token", BaseA, Str(<<Seg("static")>>), "", "", ""),
   Credential("token", BaseA, Str(<<>>), "", "", ""),
   Credential("token", BaseA, Undefined, "", "", ""),
   Credential("admin", BaseA, Undefined, "", "admin@example.com", "secret"),
   Credential("admin", BaseA \o <<"/", "/">>, Undefined, "", "admin@example.com", "secret"),
   Credential("collection", BaseA, Undefined, "users", "u1", "p1"),
   Credential("collection", BaseB \o <<"/">>, Undefined, "users", "u1", "p1")}

\* the credentials of the resolutions that are answered with TokenShapes
TokenCredentials ==
  {Credential("admin", BaseA \o <<"/">>, Undefined, "", "admin@example.com", "secret"),
   Credential("collection", BaseA, Undefined, "users", "u1", "p1")}

\* credentials that share the auth mode and the base URL and differ in the
\* collection, the identity or the password
IdentityCredentials ==
  {Credential("collection", BaseA, Undefined, "users", "u1", "p1"),
   Credential("collection", BaseA, Undefined, "users", "u2", "p2"),
   Credential("collection", BaseA \o <<"/">>, Undefined, "staff", "u3", "p1"),
   Credential("admin", BaseA, Undefined, "", "root@example.com", "secret"),
   Credential("admin", BaseA, Undefined, "", "ops@example.com", "secret")}

\* the identity a login request is made for
IdentityOf(request) ==
  IF "identity" \in DOMAIN request.body THEN request.body.identity ELSE request.body.email

\* the backend's answer to a login request: a token of the identity the
\* request names, expiring at 40 s or at 60 s
IdentityResponses(request) ==
  {[t |-> "object", token |-> Str(JwtToken(IdentityOf(request), Num(exp)))] : exp \in {40, 60}}

\* the credentials of resolutions in flight at once on one cache key: they
\* differ in the trailing slash of the base URL only
ConcurrentCredentials ==
  {Credential("admin", BaseA, Undefined, "", "admin@example.com", "secret"),
   Credential("admin", BaseA \o <<"/">>, Undefined, "", "admin@example.com", "secret")}

\* what their login calls are answered with
ConcurrentResponses ==
  {[t |-> "object", token |-> Str(JwtToken("a", Num(40)))],
   [t |-> "object", token |-> Str(JwtToken("b", Num(60)))],
   [t |-> "object", token |-> Str(<<Seg("opaque")>>)]}

ConcurrentErrors == {StatusError(Num(404)), StatusError(Num(500))}

Calls == {"c1", "c2"}

\* ------------------------------------------------------------------- state
VARIABLES
  now,          \* Date.now(), in milliseconds
  staticData,   \* getWorkflowStaticData('node'): cache key -> {token, expiresAt}
  pc,           \* per call: "idle", "login", "send", "done"
  op,           \* per call: the exported function that was called
  credentials,  \* per call: what getCredentials('pocketBaseApi') gave
  args,         \* per call: the arguments of pocketBaseRequest
  logins,       \* per call: the login requests handed to helpers.httpRequest
  caught,       \* per call: the errors the login calls rejected with
  answers,      \* per call: what the transport answered to the login calls
  cacheOps,     \* per call: the reads and writes of staticData[cacheKey]
  resolved,     \* per call: how getAuthToken ended
  sent,         \* per call: the data requests handed to helpers.httpRequest
  outcome,      \* per call: how pocketBaseRequest ended
  processed,    \* per call of execute: for each item gone through, how it ended
  returnData    \* per call of execute: the entries pushed so far

vars == <<now, staticData, pc, op, credentials, args, logins, caught, answers,
          cacheOps, resolved, sent, outcome, processed, returnData>>

NotCalled == [kind |-> "notcalled"]

Pending == [kind |-> "pending"]

Returned(value) == [kind |-> "returned", value |-> value]

Thrown(type, text, status, cause) ==
  [kind |-> "thrown", type |-> type, text |-> text, status |-> status, cause |-> cause]

NoArgs == [t |-> "undefined"]

Init ==
  /\ now = 0
  /\ staticData = [k \in {} |-> Undefined]
  /\ pc = [c \in Calls |-> "idle"]
  /\ op = [c \in Calls |-> "none"]
  /\ credentials = [c \in Calls |-> Undefined]
  /\ args = [c \in Calls |-> NoArgs]
  /\ logins = [c \in Calls |-> <<>>]
  /\ caught = [c \in Calls |-> <<>>]
  /\ answers = [c \in Calls |-> <<>>]
  /\ cacheOps = [c \in Calls |-> <<>>]
  /\ resolved = [c \in Calls |-> NotCalled]
  /\ sent = [c \in Calls |-> <<>>]
  /\ outcome = [c \in Calls |-> NotCalled]
  /\ processed = [c \in Calls |-> <<>>]
  /\ returnData = [c \in Calls |-> <<>>]

\* ------------------------------------------------------------ AuthResolver
SuperusersEndpoint ==
  <<"/", "api", "/", "collections", "/", "_superusers", "/", "auth-with-password">>

AdminsEndpoint == <<"/", "api", "/", "admins", "/", "auth-with-password">>

\* CollectionEndpoint without the collection name
CollectionEndpointUnnamed(collection) ==
  <<"/", "api", "/", "collections", "/", "auth-with-password">>

CollectionEndpoint(collection) ==
  <<"/", "api", "/", "collections", "/", collection, "/", "auth-with-password">>

\* `pb_${authType}_${baseUrl}`
cacheKey(authType, baseUrl) == <<"pb_", authType, "_", baseUrl>>

\* attempts with the legacy endpoint first
attemptsLegacyFirst(cred) ==
  IF cred.authType = "admin"
  THEN <<[endpoint |-> AdminsEndpoint,
          body |-> [t |-> "object", email |-> cred.adminEmail, password |-> cred.adminPassword]],
         [endpoint |-> SuperusersEndpoint,
          body |-> [t |-> "object", identity |-> cred.adminEmail, password |-> cred.adminPassword]]>>
  ELSE <<[endpoint |-> CollectionEndpoint(cred.authCollection),
          body |-> [t |-> "object", identity |-> cred.identity, password |-> cred.password]]>>

\* the login attempts of one resolution, in the order the code makes them
attempts(cred) ==
  IF cred.authType = "admin"
  THEN <<[endpoint |-> SuperusersEndpoint,
          body |-> [t |-> "object", identity |-> cred.adminEmail, password |-> cred.adminPassword]],
         [endpoint |-> AdminsEndpoint,
          body |-> [t |-> "object", email |-> cred.adminEmail, password |-> cred.adminPassword]]>>
  ELSE <<[endpoint |-> CollectionEndpoint(cred.authCollection),
          body |-> [t |-> "object", identity |-> cred.identity, password |-> cred.password]]>>

\* the options of the login call of one attempt
loginRequest(cred, attempt) ==
  [t |-> "object", method |-> "POST",
   url |-> buildUrl(normalizeBaseUrl(cred.baseUrl), attempt.endpoint),
   json |-> TRUE, body |-> attempt.body]

\* fatalStatus absorbing 404 only
fatalStatusBut404(statusCode) == Truthy(statusCode) /\ statusCode.n # 404

\* statusCode && ![404, 405, 410].includes(statusCode)
fatalStatus(statusCode) == Truthy(statusCode) /\ statusCode.n \notin {404, 405, 410}

\* staticTokenResult without the check for a missing token
staticTokenResultUnchecked(cred) == Returned(cred.apiToken)

\* authType 'token': the configured token, or the error for a missing one
staticTokenResult(cred) ==
  IF ~Truthy(cred.apiToken)
  THEN Thrown("NodeOperationError", "PocketBase API token is missing in credentials.",
              Undefined, Undefined)
  ELSE Returned(cred.apiToken)

\* getAuthToken from its entry to its first network call or its return: the
\* result, the cache accesses made and the login request issued, if any
getAuthTokenEntry(cred, data, t) ==
  LET authType == cred.authType
      baseUrl == normalizeBaseUrl(cred.baseUrl)
      key == cacheKey(authType, baseUrl)
      cached == IF key \in DOMAIN data THEN data[key] ELSE Undefined
      cachedToken == Field(cached, "token")
      cachedExpiry == Field(cached, "expiresAt")
  IN IF authType = "none"
     THEN [result |-> Returned(Null), cacheOps |-> <<>>, login |-> <<>>]
     ELSE IF authType = "token"
     THEN [result |-> staticTokenResult(cred), cacheOps |-> <<>>, login |-> <<>>]
     ELSE IF Truthy(cachedToken) /\ ~isExpired(cachedExpiry, t)
     THEN [result |-> Returned(cachedToken), cacheOps |-> <<"read">>, login |-> <<>>]
     ELSE IF authType \in {"admin", "collection"}
     THEN [result |-> Pending, cacheOps |-> <<"read">>,
           login |-> <<loginRequest(cred, attempts(cred)[1])>>]
     ELSE [result |-> Returned(Null), cacheOps |-> <<"read">>, login |-> <<>>]

\* the end of getAuthToken accepting every token that is not undefined
fromResponseDefinedToken(response) ==
  LET token == Field(response, "token")
      store == [t |-> "object", token |-> token, expiresAt |-> decodeJwtExpiry(token.s)]
  IN IF token.t = "undefined"
     THEN [result |-> Thrown("NodeOperationError",
                             "PocketBase authentication response did not include a token.",
                             Undefined, Undefined),
           write |-> <<>>, login |-> <<>>]
     ELSE [result |-> Returned(token), write |-> <<store>>, login |-> <<>>]

\* the end of getAuthToken with the cache written before the token is
\* tested
fromResponseStoredUntested(response) ==
  LET token == Field(response, "token")
      store == [t |-> "object", token |-> token, expiresAt |-> decodeJwtExpiry(token.s)]
      untested == [t |-> "object", token |-> token, expiresAt |-> Undefined]
  IN IF ~Truthy(token)
     THEN [result |-> Thrown("NodeOperationError",
                             "PocketBase authentication response did not include a token.",
                             Undefined, Undefined),
           write |-> <<untested>>, login |-> <<>>]
     ELSE [result |-> Returned(token), write |-> <<store>>, login |-> <<>>]

\* the end of getAuthToken once a login call gave a response: the token is
\* taken from it, and returned and stored with its expiry when there is one
fromResponse(response) ==
  LET token == Field(response, "token")
      store == [t |-> "object", token |-> token, expiresAt |-> decodeJwtExpiry(token.s)]
  IN IF ~Truthy(token)
     THEN [result |-> Thrown("NodeOperationError",
                             "PocketBase authentication response did not include a token.",
                             Undefined, Undefined),
           write |-> <<>>, login |-> <<>>]
     ELSE [result |-> Returned(token), write |-> <<store>>, login |-> <<>>]

\* lastError keeping the error of the first attempt
lastErrorOfFirst(reply, errors) ==
  IF errors # <<>> THEN errors[1]
  ELSE IF reply.ok THEN Undefined
  ELSE reply.error

\* lastError once a login call has settled with reply, errors being the
\* errors caught before: the error of this call when it rejected, else the
\* one caught last
lastErrorOf(reply, errors) ==
  IF reply.ok
  THEN (IF errors = <<>> THEN Undefined ELSE errors[Len(errors)])
  ELSE reply.error

\* getAuthToken from the settling of a login call to its next network call
\* or its end; reply is [ok |-> TRUE, response |-> r] or [ok |-> FALSE,
\* error |-> e], made is the number of login calls made so far, errors the
\* errors caught so far
getAuthTokenResume(cred, reply, made, errors) ==
  LET authType == cred.authType
      plan == attempts(cred)
      lastError == lastErrorOf(reply, errors)
      statusCode == IF reply.ok THEN Undefined ELSE getStatusCode(reply.error)
      failedText == "PocketBase authentication failed."
      statusText == "PocketBase authentication failed (status ${statusCode})."
      noResponse == Thrown("NodeApiError", failedText, Undefined, lastError)
  IN IF authType = "admin"
     THEN IF reply.ok
          THEN IF reply.response.t = "undefined"
               THEN [result |-> noResponse, write |-> <<>>, login |-> <<>>]
               ELSE fromResponse(reply.response)
          ELSE IF fatalStatus(statusCode)
          THEN [result |-> Thrown("NodeApiError", statusText, statusCode, reply.error),
                write |-> <<>>, login |-> <<>>]
          ELSE IF made < Len(plan)
          THEN [result |-> Pending, write |-> <<>>,
                login |-> <<loginRequest(cred, plan[made + 1])>>]
          ELSE [result |-> noResponse, write |-> <<>>, login |-> <<>>]
     ELSE IF reply.ok
          THEN IF reply.response.t = "undefined"
               THEN [result |-> Thrown("NodeOperationError", failedText, Undefined, Undefined),
                     write |-> <<>>, login |-> <<>>]
               ELSE fromResponse(reply.response)
          ELSE [result |-> Thrown("NodeApiError",
                                  IF Truthy(statusCode) THEN statusText ELSE failedText,
                                  IF Truthy(statusCode) THEN statusCode ELSE Undefined,
                                  reply.error),
                write |-> <<>>, login |-> <<>>]

\* a write that leaves nothing else in the store
PutAlone(data, key, entry) == [k \in {key} |-> entry]

\* a write that sets the token and leaves the expiry of an entry that is
\* there
PutToken(data, key, entry) ==
  [k \in (DOMAIN data) \cup {key} |->
     IF k # key THEN data[k]
     ELSE IF key \in DOMAIN data THEN [entry EXCEPT !.expiresAt = data[key].expiresAt]
     ELSE entry]

\* staticData[key] = entry
Put(data, key, entry) ==
  [k \in (DOMAIN data) \cup {key} |-> IF k = key THEN entry ELSE data[k]]

\* ------------------------------------------------------ RequestDispatcher
\* `Bearer ${token}`: a template string is the sequence of its parts
Bearer(token) == Str(<<"Bearer ", token>>)

\* the request with the body attached whenever one is given, form data or
\* not
requestOptionsBodyBesideForm(method, endpoint, body, qs, extraOptions, cred, token) ==
  LET baseUrl == normalizeBaseUrl(cred.baseUrl)
      requestOverrides == Without(extraOptions, "skipAuth")
      given == Field(requestOverrides, "headers")
      copied == IF given.t \in {"undefined", "null"} THEN [t |-> "object"] ELSE given
      headers == IF Truthy(token)
                 THEN Spread(copied, [Authorization |-> Bearer(token)])
                 ELSE copied
      initial == Spread([t |-> "object", method |-> method,
                         url |-> buildUrl(baseUrl, endpoint), json |-> TRUE,
                         headers |-> headers],
                        requestOverrides)
      withQs == IF Truthy(qs) /\ (DOMAIN qs) \ {"t"} # {}
                THEN Spread(initial, [qs |-> qs])
                ELSE initial
  IN IF Truthy(body) THEN Spread(withQs, [body |-> body]) ELSE withQs

\* the request options pocketBaseRequest hands to helpers.httpRequest
requestOptions(method, endpoint, body, qs, extraOptions, cred, token) ==
  LET baseUrl == normalizeBaseUrl(cred.baseUrl)
      requestOverrides == Without(extraOptions, "skipAuth")
      given == Field(requestOverrides, "headers")
      copied == IF given.t \in {"undefined", "null"} THEN [t |-> "object"] ELSE given
      headers == IF Truthy(token)
                 THEN Spread(copied, [Authorization |-> Bearer(token)])
                 ELSE copied
      initial == Spread([t |-> "object", method |-> method,
                         url |-> buildUrl(baseUrl, endpoint), json |-> TRUE,
                         headers |-> headers],
                        requestOverrides)
      withQs == IF Truthy(qs) /\ (DOMAIN qs) \ {"t"} # {}
                THEN Spread(initial, [qs |-> qs])
                ELSE initial
  IN IF Truthy(body) /\ ~Truthy(Field(withQs, "formData"))
     THEN Spread(withQs, [body |-> body])
     ELSE withQs

\* skipAuthValue comparing with the string 'true'
skipAuthValueString(extraOptions) == Field(extraOptions, "skipAuth") = Str(<<"true">>)

\* skipAuth === true
skipAuthValue(extraOptions) == Field(extraOptions, "skipAuth") = Bool(TRUE)

\* the arguments of the modelled calls of pocketBaseRequest
ExtraOptions ==
  {[t |-> "object"],
   [t |-> "object", skipAuth |-> Bool(TRUE)],
   [t |-> "object", skipAuth |-> Bool(FALSE)],
   [t |-> "object", headers |-> [t |-> "object"]],
   [t |-> "object", headers |-> [t |-> "object", XCustom |-> Str(<<"v1">>)]],
   [t |-> "object", headers |-> [t |-> "object", XCustom |-> Str(<<"v1">>)],
                    skipAuth |-> Bool(TRUE)],
   [t |-> "object", headers |-> [t |-> "object", Authorization |-> Bearer(Str(<<Seg("own")>>))]],
   [t |-> "object", headers |-> [t |-> "object", Authorization |-> Bearer(Str(<<Seg("own")>>))],
                    skipAuth |-> Bool(TRUE)],
   [t |-> "object", formData |-> [t |-> "object", title |-> Str(<<"x">>)]],
   [t |-> "object", formData |-> [t |-> "object", title |-> Str(<<"x">>)],
                    skipAuth |-> Bool(TRUE)]}

Endpoints ==
  {<<"/", "collections", "/", "x", "/", "records">>,
   <<"/", "api", "/", "collections", "/", "x", "/", "records">>,
   <<"collections", "/", "x", "/", "records">>,
   <<"https:", "/", "/", "o", "/", "x">>}

Bodies == {Undefined, [t |-> "object", title |-> Str(<<"x">>)]}

Queries == {Undefined, [t |-> "object"], [t |-> "object", page |-> Num(1)]}

DispatchArgs ==
  [method : {"GET", "POST"}, endpoint : Endpoints, body : Bodies, qs : Queries,
   extraOptions : ExtraOptions]

DispatchCredentials ==
  {Credential("none", BaseA, Undefined, "", "", ""),
   Credential("token", BaseA \o <<"/">>, Str(<<Seg("static")>>), "", "", ""),
   Credential("token", BaseA, Undefined, "", "", ""),
   Credential("admin", BaseA, Undefined, "", "admin@example.com", "secret"),
   Credential("collection", BaseA \o <<"/", "/">>, Undefined, "users", "u1", "p1")}

DispatchLoginResponses ==
  {[t |-> "object"], [t |-> "object", token |-> Str(JwtToken("a", Num(40)))]}

DispatchLoginErrors == {StatusError(Num(404)), StatusError(Num(500))}

DataErrors ==
  {StatusError(Num(400)), [t |-> "object", code |-> "ECONNREFUSED"]}

\* -------------------------------------------------- objects, arrays, text
\* An object whose entries are enumerated is the sequence of its entries in
\* the order of Object.entries, an array the sequence of its elements; a
\* string is the sequence of its characters.
Entry(k, v) == [k |-> k, v |-> v]

Map(entries) == [t |-> "map", e |-> entries]

Array(elements) == [t |-> "array", a |-> elements]

\* a Date, by the text toISOString gives for it
Date(iso) == [t |-> "date", iso |-> iso]

\* typeof v === 'object'
IsObjectType(v) == v.t \in {"object", "map", "array", "date", "null"}

\* the index of the entry of key k, 0 when there is none
IndexOfKey(entries, k) ==
  IF \E i \in 1..Len(entries) : entries[i].k = k
  THEN CHOOSE i \in 1..Len(entries) : entries[i].k = k
  ELSE 0

\* o[k], and o?.[k] when o is undefined or null
Get(o, k) ==
  IF o.t = "map" /\ IndexOfKey(o.e, k) # 0 THEN o.e[IndexOfKey(o.e, k)].v ELSE Undefined

\* o[k] = v on the entries of an object
PutEntry(entries, k, v) ==
  IF IndexOfKey(entries, k) # 0
  THEN [entries EXCEPT ![IndexOfKey(entries, k)] = Entry(k, v)]
  ELSE Append(entries, Entry(k, v))

DigitChar(d) ==
  CASE d = 0 -> "0" [] d = 1 -> "1" [] d = 2 -> "2" [] d = 3 -> "3" [] d = 4 -> "4"
    [] d = 5 -> "5" [] d = 6 -> "6" [] d = 7 -> "7" [] d = 8 -> "8" [] d = 9 -> "9"

\* the decimal digits of a natural number
RECURSIVE NatChars(_)
NatChars(n) == IF n < 10 THEN <<DigitChar(n)>> ELSE Append(NatChars(n \div 10), DigitChar(n % 10))

RECURSIVE PowerOfTen(_)
PowerOfTen(k) == IF k = 0 THEN 1 ELSE 10 * PowerOfTen(k - 1)

\* a number with digits after the point is its value times 10^scale together
\* with scale, the last digit not being 0; a whole number has no scale
RECURSIVE DecimalNumber(_, _)
DecimalNumber(n, scale) ==
  IF scale = 0 THEN Num(n)
  ELSE IF n % 10 = 0 THEN DecimalNumber(n \div 10, scale - 1)
  ELSE [t |-> "number", n |-> n, scale |-> scale]

ScaleOf(v) == IF "scale" \in DOMAIN v THEN v.scale ELSE 0

\* the k last digits of a natural number, zeros included
RECURSIVE LastDigits(_, _)
LastDigits(n, k) ==
  IF k = 0 THEN <<>> ELSE Append(LastDigits(n \div 10, k - 1), DigitChar(n % 10))

\* String(v) of a number
NumberChars(v) ==
  LET abs == IF v.n < 0 THEN 0 - v.n ELSE v.n
      unit == PowerOfTen(ScaleOf(v))
  IN (IF v.n < 0 THEN <<"-">> ELSE <<>>)
       \o NatChars(abs \div unit)
       \o (IF ScaleOf(v) = 0 THEN <<>> ELSE <<".">> \o LastDigits(abs % unit, ScaleOf(v)))

\* the characters of a string between the quotes of JSON text
RECURSIVE Escaped(_)
Escaped(chars) ==
  IF chars = <<>> THEN <<>>
  ELSE (IF Head(chars) \in {"\"", "\\"} THEN <<"\\", Head(chars)>> ELSE <<Head(chars)>>)
         \o Escaped(Tail(chars))

Quoted(chars) == <<"\"">> \o Escaped(chars) \o <<"\"">>

\* JSON.stringify(v) of a value other than undefined, without indentation:
\* an undefined array element is written null, an undefined member is left out
RECURSIVE JsonText(_), JsonElements(_), JsonMembers(_, _)
JsonText(v) ==
  CASE v.t = "null" -> <<"n", "u", "l", "l">>
    [] v.t = "boolean" -> (IF v.b THEN <<"t", "r", "u", "e">> ELSE <<"f", "a", "l", "s", "e">>)
    [] v.t = "number" -> NumberChars(v)
    [] v.t = "string" -> Quoted(v.s)
    [] v.t = "date" -> Quoted(v.iso)
    [] v.t = "array" -> <<"[">> \o JsonElements(v.a) \o <<"]">>
    [] v.t = "map" -> <<"{">> \o JsonMembers(v.e, TRUE) \o <<"}">>

JsonElements(elements) ==
  IF elements = <<>> THEN <<>>
  ELSE (IF Head(elements).t = "undefined" THEN <<"n", "u", "l", "l">> ELSE JsonText(Head(elements)))
         \o (IF Len(elements) > 1 THEN <<",">> ELSE <<>>)
         \o JsonElements(Tail(elements))

JsonMembers(entries, first) ==
  IF entries = <<>> THEN <<>>
  ELSE IF Head(entries).v.t = "undefined" THEN JsonMembers(Tail(entries), first)
  ELSE (IF first THEN <<>> ELSE <<",">>)
         \o Quoted(Head(entries).k) \o <<":">> \o JsonText(Head(entries).v)
         \o JsonMembers(Tail(entries), FALSE)

\* JSON.stringify(v)
JSONstringify(v) == IF v.t = "undefined" THEN Undefined ELSE Str(JsonText(v))

\* String(v), the conversion of a template string
RECURSIVE StringChars(_), JoinChars(_)
StringChars(v) ==
  CASE v.t = "undefined" -> <<"u", "n", "d", "e", "f", "i", "n", "e", "d">>
    [] v.t = "null" -> <<"n", "u", "l", "l">>
    [] v.t = "boolean" -> (IF v.b THEN <<"t", "r", "u", "e">> ELSE <<"f", "a", "l", "s", "e">>)
    [] v.t = "number" -> NumberChars(v)
    [] v.t = "string" -> v.s
    [] v.t = "array" -> JoinChars(v.a)
    [] OTHER -> <<"[", "o", "b", "j", "e", "c", "t", " ", "O", "b", "j", "e", "c", "t", "]">>

\* Array.prototype.join(','): undefined and null elements are empty
JoinChars(elements) ==
  IF elements = <<>> THEN <<>>
  ELSE (IF Head(elements).t \in {"undefined", "null"} THEN <<>> ELSE StringChars(Head(elements)))
         \o (IF Len(elements) > 1 THEN <<",">> ELSE <<>>)
         \o JoinChars(Tail(elements))

\* ------------------------------------------------------------- JSON.parse
\* A parse gives [ok |-> FALSE], or the value read and the characters left.
Fail == [ok |-> FALSE]

Read(value, rest) == [ok |-> TRUE, value |-> value, rest |-> rest]

\* the number of digits chars begins with
RECURSIVE LeadingDigits(_)
LeadingDigits(chars) ==
  IF chars = <<>> \/ Head(chars) \notin DigitChars THEN 0 ELSE 1 + LeadingDigits(Tail(chars))

Drop(chars, n) == SubSeq(chars, n + 1, Len(chars))

\* the one element of a set: Only({e(x) : x \in {v}}) is e(v), with v
\* computed once
Only(S) == CHOOSE x \in S : TRUE

\* (\.\d+)? after the digits of value whole
FractionOf(whole, afterWhole) ==
  IF Len(afterWhole) >= 2 /\ afterWhole[1] = "." /\ afterWhole[2] \in DigitChars
  THEN Read(DecimalNumber(whole * PowerOfTen(LeadingDigits(Tail(afterWhole)))
                            + ParseDigits(Tail(afterWhole), 0),
                          LeadingDigits(Tail(afterWhole))),
            Drop(afterWhole, LeadingDigits(Tail(afterWhole)) + 1))
  ELSE Read(Num(whole), afterWhole)

\* (0|[1-9]\d*)(\.\d+)? at the start of digits, and its value
UnsignedLiteral(digits) ==
  IF digits = <<>> \/ Head(digits) \notin DigitChars THEN Fail
  ELSE IF Head(digits) = "0" THEN FractionOf(0, Tail(digits))
  ELSE FractionOf(ParseDigits(digits, 0), Drop(digits, LeadingDigits(digits)))

Negative(literal) ==
  IF literal.ok THEN Read([literal.value EXCEPT !.n = 0 - literal.value.n], literal.rest)
  ELSE Fail

\* -?(0|[1-9]\d*)(\.\d+)? at the start of chars, and its value
DecimalLiteral(chars) ==
  IF chars # <<>> /\ Head(chars) = "-" THEN Negative(UnsignedLiteral(Tail(chars)))
  ELSE UnsignedLiteral(chars)

\* value times ten to the power shift
Shifted(value, shift, rest) ==
  IF shift >= ScaleOf(value)
  THEN Read(Num(value.n * PowerOfTen(shift - ScaleOf(value))), rest)
  ELSE Read(DecimalNumber(value.n, ScaleOf(value) - shift), rest)

\* the digits of an exponent, after its sign
ExponentOf(value, sign, digits) ==
  IF LeadingDigits(digits) = 0 THEN Fail
  ELSE Shifted(value,
               IF sign = "-" THEN 0 - ParseDigits(digits, 0) ELSE ParseDigits(digits, 0),
               Drop(digits, LeadingDigits(digits)))

\* ([eE][+-]?\d+)? after a decimal literal
WithExponent(literal) ==
  IF ~literal.ok THEN Fail
  ELSE IF literal.rest = <<>> \/ Head(literal.rest) \notin {"e", "E"} THEN literal
  ELSE IF Len(literal.rest) >= 2 /\ literal.rest[2] \in {"+", "-"}
  THEN ExponentOf(literal.value, literal.rest[2], Drop(literal.rest, 2))
  ELSE ExponentOf(literal.value, "+", Drop(literal.rest, 1))

\* a JSON number at the start of chars: a decimal literal and an optional
\* exponent
JsonNumber(chars) == Only({WithExponent(literal) : literal \in {DecimalLiteral(chars)}})

\* the characters of a JSON string after its opening quote, read is what
\* was read so far; of the escapes, \" \\ and \/ are read
RECURSIVE JsonString(_, _)
JsonString(chars, read) ==
  IF chars = <<>> THEN Fail
  ELSE IF Head(chars) = "\"" THEN Read(Str(read), Tail(chars))
  ELSE IF Head(chars) = "\\"
  THEN IF Len(chars) >= 2 /\ chars[2] \in {"\"", "\\", "/"}
       THEN JsonString(Drop(chars, 2), Append(read, chars[2]))
       ELSE Fail
  ELSE JsonString(Tail(chars), Append(read, Head(chars)))

RECURSIVE JsonValue(_), JsonArrayRest(_, _), JsonObjectRest(_, _)
\* a JSON value at the start of chars, after blanks
JsonValue(chars) ==
  Only({IF text = <<>> THEN Fail
        ELSE IF Head(text) = "{"
        THEN IF SkipSpaces(Tail(text)) # <<>> /\ Head(SkipSpaces(Tail(text))) = "}"
             THEN Read(Map(<<>>), Tail(SkipSpaces(Tail(text))))
             ELSE JsonObjectRest(Tail(text), <<>>)
        ELSE IF Head(text) = "["
        THEN IF SkipSpaces(Tail(text)) # <<>> /\ Head(SkipSpaces(Tail(text))) = "]"
             THEN Read(Array(<<>>), Tail(SkipSpaces(Tail(text))))
             ELSE JsonArrayRest(Tail(text), <<>>)
        ELSE IF Head(text) = "\"" THEN JsonString(Tail(text), <<>>)
        ELSE IF StartsWith(text, <<"t", "r", "u", "e">>) THEN Read(Bool(TRUE), Drop(text, 4))
        ELSE IF StartsWith(text, <<"f", "a", "l", "s", "e">>) THEN Read(Bool(FALSE), Drop(text, 5))
        ELSE IF StartsWith(text, <<"n", "u", "l", "l">>) THEN Read(Null, Drop(text, 4))
        ELSE JsonNumber(text) :
        text \in {SkipSpaces(chars)}})

\* the elements of an array from an element on, up to the closing bracket
JsonArrayRest(chars, elements) ==
  Only({LET after == IF element.ok THEN SkipSpaces(element.rest) ELSE <<>> IN
        IF after = <<>> THEN Fail
        ELSE IF Head(after) = ","
        THEN JsonArrayRest(Tail(after), Append(read, element.value))
        ELSE IF Head(after) = "]" THEN Read(Array(Append(read, element.value)), Tail(after))
        ELSE Fail :
        element \in {JsonValue(chars)}, read \in {elements}})

\* the name of a member and the value after its colon
JsonMember(chars) ==
  Only({IF ~name.ok THEN Fail
        ELSE Only({IF colon = <<>> \/ Head(colon) # ":" THEN Fail
                   ELSE Only({IF ~member.ok THEN Fail
                              ELSE Read(Entry(name.value.s, member.value), member.rest) :
                              member \in {JsonValue(Tail(colon))}}) :
                   colon \in {SkipSpaces(name.rest)}}) :
        name \in {Only({IF text # <<>> /\ Head(text) = "\"" THEN JsonString(Tail(text), <<>>)
                        ELSE Fail :
                        text \in {SkipSpaces(chars)}})}})

\* the members of an object from a member on, up to the closing brace; a
\* name met again keeps its place and takes the later value
JsonObjectRest(chars, entries) ==
  Only({LET after == IF member.ok THEN SkipSpaces(member.rest) ELSE <<>>
            put == PutEntry(read, member.value.k, member.value.v)
        IN IF after = <<>> THEN Fail
           ELSE IF Head(after) = "," THEN JsonObjectRest(Tail(after), put)
           ELSE IF Head(after) = "}" THEN Read(Map(put), Tail(after))
           ELSE Fail :
        member \in {JsonMember(chars)}, read \in {entries}})

\* JSON.parse(chars): ok is FALSE where it throws
JSONparse(chars) ==
  Only({IF parsed.ok /\ SkipSpaces(parsed.rest) = <<>> THEN parsed ELSE Fail :
        parsed \in {JsonValue(chars)}})

\* -------------------------------------------------------- ErrorNormalizer
\* the property names and the text of extractPocketBaseError
KeyBody == <<"b", "o", "d", "y">>

KeyCode == <<"c", "o", "d", "e">>

KeyData == <<"d", "a", "t", "a">>

KeyMessage == <<"m", "e", "s", "s", "a", "g", "e">>

KeyResponse == <<"r", "e", "s", "p", "o", "n", "s", "e">>

KeyStatus == <<"s", "t", "a", "t", "u", "s">>

KeyStatusCode == <<"s", "t", "a", "t", "u", "s", "C", "o", "d", "e">>

RequestFailedText == <<"P", "o", "c", "k", "e", "t", "B", "a", "s", "e", " ", "r", "e", "q", "u", "e", "s", "t", " ", "f", "a", "i", "l", "e", "d">>

\* Object.entries(v) of an object or an array
Entries(v) ==
  IF v.t = "map" THEN v.e
  ELSE IF v.t = "array" THEN [i \in 1..Len(v.a) |-> Entry(NatChars(i - 1), v.a[i])]
  ELSE <<>>

\* one line of fieldErrors taking the message member whenever it is there
fieldErrorAnyMessage(field, details) ==
  IF details.t = "string" THEN Str(field \o <<":", " ">> \o details.s)
  ELSE IF Get(details, KeyMessage).t # "undefined"
  THEN Str(field \o <<":", " ">> \o StringChars(Get(details, KeyMessage)))
  ELSE Str(field \o <<":", " ">> \o StringChars(JSONstringify(details)))

\* one line of fieldErrors
fieldError(field, details) ==
  IF details.t = "string" THEN Str(field \o <<":", " ">> \o details.s)
  ELSE IF Truthy(Get(details, KeyMessage))
  THEN Str(field \o <<":", " ">> \o StringChars(Get(details, KeyMessage)))
  ELSE Str(field \o <<":", " ">> \o StringChars(JSONstringify(details)))

extractPocketBaseError(error) ==
  LET response == Coalesce(<<Get(error, KeyResponse), error>>)
      body == Coalesce(<<Get(response, KeyBody), Get(response, KeyData),
                         Get(error, KeyBody), error>>)
      statusCode == Coalesce(<<Get(response, KeyStatusCode), Get(response, KeyStatus),
                               Get(error, KeyStatusCode)>>)
      message == Coalesce(<<Get(body, KeyMessage), Get(error, KeyMessage),
                            Str(RequestFailedText)>>)
      code == Coalesce(<<Get(body, KeyCode), Get(error, KeyCode)>>)
      data == Coalesce(<<Get(body, KeyData), Undefined>>)
      fieldErrors ==
        IF Truthy(data) /\ IsObjectType(data)
        THEN [i \in 1..Len(Entries(data)) |-> fieldError(Entries(data)[i].k, Entries(data)[i].v)]
        ELSE <<>>
  IN [message |-> message, code |-> code, statusCode |-> statusCode,
      fieldErrors |-> fieldErrors, raw |-> body]

\* an object literal: the members whose value is Absent are not written
Absent == [t |-> "absent"]

ObjectOf(entries) == Map(SelectSeq(entries, LAMBDA en : en.v # Absent))

\* what the backend reports for one field
FieldDetails ==
  {Str(<<"R", "e", "q", "u", "i", "r", "e", "d">>), ObjectOf(<<Entry(KeyMessage, Str(<<"R", "e", "q", "u", "i", "r", "e", "d">>))>>),
   ObjectOf(<<Entry(KeyMessage, Str(<<>>))>>),
   ObjectOf(<<Entry(KeyCode, Str(<<"x">>))>>), Null, Num(5)}

\* the data member of an error body
ErrorDatas ==
  {Absent, Undefined, Null, Str(<<"b", "a", "d">>), Map(<<>>), Array(<<Str(<<"a">>), Str(<<"b">>)>>)}
    \cup {Map(<<Entry(<<"t", "i", "t", "l", "e">>, d)>>) : d \in FieldDetails}
    \cup {Map(<<Entry(<<"t", "i", "t", "l", "e">>, d1), Entry(<<"c", "o", "u", "n", "t">>, d2)>>) :
             d1 \in {ObjectOf(<<Entry(KeyMessage, Str(<<"R", "e", "q", "u", "i", "r", "e", "d">>))>>), Null},
             d2 \in {Str(<<"m", "u", "s", "t", " ", "b", "e", " ", "n", "u", "m", "b", "e", "r">>), ObjectOf(<<Entry(KeyCode, Str(<<"x">>))>>)}}
    \cup {Map(<<Entry(<<"c", "o", "u", "n", "t">>, Str(<<"m", "u", "s", "t", " ", "b", "e", " ", "n", "u", "m", "b", "e", "r">>)),
                Entry(<<"t", "i", "t", "l", "e">>, ObjectOf(<<Entry(KeyMessage, Str(<<"R", "e", "q", "u", "i", "r", "e", "d">>))>>))>>)}

ErrorMessages == {Absent, Str(<<>>), Str(<<"F", "a", "i", "l", "e", "d">>)}

\* error bodies: objects, and what is not an object
ErrorBodies ==
  {ObjectOf(<<Entry(KeyCode, c), Entry(KeyMessage, m), Entry(KeyData, d)>>) :
     c \in {Absent, Num(400)}, m \in ErrorMessages, d \in ErrorDatas}
    \cup {Str(<<"N", "o", "t", " ", "f", "o", "u", "n", "d">>)}

StatusValues == {Absent, Num(400), Str(<<"4", "0", "0">>), Str(<<"a", "b", "c">>)}

\* the bodies used where several places hold one
FewBodies ==
  {Absent, Null, ObjectOf(<<Entry(KeyMessage, Str(<<"F", "a", "i", "l", "e", "d">>))>>),
   ObjectOf(<<Entry(KeyMessage, Str(<<"O", "t", "h", "e", "r">>)),
              Entry(KeyData, Map(<<Entry(<<"t", "i", "t", "l", "e">>, Str(<<"R", "e", "q", "u", "i", "r", "e", "d">>))>>))>>)}

\* the errors handed to extractPocketBaseError: a response with a body, a
\* response with data, a body on the error, the body being the error, and
\* bodies and status codes in several places at once
ErrorInputs ==
  {ObjectOf(<<Entry(KeyMessage, m),
              Entry(KeyResponse, ObjectOf(<<Entry(KeyStatusCode, st), Entry(KeyBody, b)>>))>>) :
     m \in {Absent, Str(<<"N", "e", "t", "w", "o", "r", "k">>)}, st \in StatusValues, b \in ErrorBodies}
    \cup {ObjectOf(<<Entry(KeyResponse, ObjectOf(<<Entry(KeyStatus, st), Entry(KeyData, b)>>))>>) :
             st \in StatusValues, b \in ErrorBodies}
    \cup {ObjectOf(<<Entry(KeyStatusCode, st), Entry(KeyBody, b)>>) :
             st \in StatusValues, b \in ErrorBodies}
    \cup {ObjectOf(<<Entry(KeyCode, c), Entry(KeyMessage, m), Entry(KeyData, d),
                     Entry(KeyStatus, st)>>) :
             c \in {Absent, Num(400)}, m \in ErrorMessages, d \in ErrorDatas,
             st \in {Absent, Num(400)}}
    \cup {ObjectOf(<<Entry(KeyResponse, ObjectOf(<<Entry(KeyBody, b1), Entry(KeyData, b2)>>)),
                     Entry(KeyBody, b3)>>) :
             b1 \in FewBodies, b2 \in FewBodies, b3 \in FewBodies}
    \cup {ObjectOf(<<Entry(KeyBody, b1), Entry(KeyData, b2), Entry(KeyMessage, Str(<<"T", "o", "p">>))>>) :
             b1 \in FewBodies, b2 \in FewBodies}
    \cup {ObjectOf(<<Entry(KeyResponse, ObjectOf(<<Entry(KeyStatusCode, s1), Entry(KeyStatus, s2)>>)),
                     Entry(KeyStatusCode, s3)>>) :
             s1 \in {Absent, Null, Num(400)}, s2 \in {Absent, Num(401)},
             s3 \in {Absent, Num(402)}}

\* ---------------------------------------------------------------- Redactor
SENSITIVE_KEYS ==
  {<<"p", "a", "s", "s", "w", "o", "r", "d">>, <<"a", "d", "m", "i", "n", "P", "a", "s", "s", "w", "o", "r", "d">>, <<"a", "p", "i", "T", "o", "k", "e", "n">>, <<"t", "o", "k", "e", "n">>, <<"a", "u", "t", "h", "o", "r", "i", "z", "a", "t", "i", "o", "n">>, <<"a", "u", "t", "h">>}

\* the deepest layer redactObject enters
RedactDepthLimit == 6

LowerChar(ch) ==
  CASE ch = "A" -> "a" [] ch = "B" -> "b" [] ch = "C" -> "c" [] ch = "D" -> "d"
    [] ch = "E" -> "e" [] ch = "F" -> "f" [] ch = "G" -> "g" [] ch = "H" -> "h"
    [] ch = "I" -> "i" [] ch = "J" -> "j" [] ch = "K" -> "k" [] ch = "L" -> "l"
    [] ch = "M" -> "m" [] ch = "N" -> "n" [] ch = "O" -> "o" [] ch = "P" -> "p"
    [] ch = "Q" -> "q" [] ch = "R" -> "r" [] ch = "S" -> "s" [] ch = "T" -> "t"
    [] ch = "U" -> "u" [] ch = "V" -> "v" [] ch = "W" -> "w" [] ch = "X" -> "x"
    [] ch = "Y" -> "y" [] ch = "Z" -> "z"
    [] OTHER -> ch

\* String.prototype.toLowerCase
toLowerCase(chars) == [i \in 1..Len(chars) |-> LowerChar(chars[i])]

RedactedText == <<"[", "R", "E", "D", "A", "C", "T", "E", "D", "]">>

RECURSIVE redactObject(_, _)
redactObject(value, depth) ==
  IF value.t \in {"null", "undefined"} THEN value
  ELSE IF depth > RedactDepthLimit THEN value
  ELSE IF value.t = "array"
  THEN Array([i \in 1..Len(value.a) |-> redactObject(value.a[i], depth + 1)])
  ELSE IF value.t # "map" THEN value
  ELSE Map([i \in 1..Len(value.e) |->
              IF toLowerCase(value.e[i].k) \in SENSITIVE_KEYS
              THEN Entry(value.e[i].k, Str(RedactedText))
              ELSE Entry(value.e[i].k, redactObject(value.e[i].v, depth + 1))])

KeyHeaders == <<"h", "e", "a", "d", "e", "r", "s">>

KeyMethod == <<"m", "e", "t", "h", "o", "d">>

KeyQs == <<"q", "s">>

KeyUrl == <<"u", "r", "l">>

buildDebugInfo(request) ==
  Map(<<Entry(KeyMethod, Get(request, KeyMethod)),
        Entry(KeyUrl, Get(request, KeyUrl)),
        Entry(KeyQs, Coalesce(<<Get(request, KeyQs), Map(<<>>)>>)),
        Entry(KeyBody, redactObject(Coalesce(<<Get(request, KeyBody), Map(<<>>)>>), 0)),
        Entry(KeyHeaders, redactObject(Coalesce(<<Get(request, KeyHeaders), Map(<<>>)>>), 0))>>)

\* the deepest nesting of the objects handed to buildDebugInfo
MaxNesting == 8

\* names of members: the sensitive names as listed, in other letter cases,
\* and names that are not sensitive
MemberNames ==
  {<<"p", "a", "s", "s", "w", "o", "r", "d">>, <<"P", "a", "s", "s", "w", "o", "r", "d">>, <<"P", "A", "S", "S", "W", "O", "R", "D">>, <<"a", "d", "m", "i", "n", "P", "a", "s", "s", "w", "o", "r", "d">>, <<"a", "d", "m", "i", "n", "p", "a", "s", "s", "w", "o", "r", "d">>,
   <<"a", "p", "i", "T", "o", "k", "e", "n">>, <<"A", "P", "I", "T", "O", "K", "E", "N">>, <<"t", "o", "k", "e", "n">>, <<"T", "o", "k", "e", "n">>, <<"a", "u", "t", "h", "o", "r", "i", "z", "a", "t", "i", "o", "n">>,
   <<"A", "u", "t", "h", "o", "r", "i", "z", "a", "t", "i", "o", "n">>, <<"a", "u", "t", "h">>, <<"o", "k">>, <<"p", "a", "s", "s", "w", "o", "r", "d", "H", "i", "n", "t">>}

MemberValues ==
  {Str(<<"s", "e", "c", "r", "e", "t">>), Bool(TRUE), Map(<<Entry(<<"t", "o", "k", "e", "n">>, Str(<<"a", "b", "c">>))>>),
   Array(<<Map(<<Entry(<<"T", "o", "k", "e", "n">>, Str(<<"a", "b", "c">>))>>), Str(<<"x">>)>>)}

FlatObjects ==
  {Map(<<Entry(k, v)>>) : k \in MemberNames, v \in MemberValues}
    \cup {Map(<<Entry(<<"p", "a", "s", "s", "w", "o", "r", "d">>, Str(<<"s", "e", "c", "r", "e", "t">>)), Entry(<<"t", "o", "k", "e", "n">>, Str(<<"a", "b", "c">>)),
                Entry(<<"o", "k">>, Bool(TRUE))>>)}

\* value under n layers of objects and arrays
RECURSIVE Nested(_, _)
Nested(n, value) ==
  IF n = 0 THEN value
  ELSE IF n % 3 = 0 THEN Array(<<Nested(n - 1, value)>>)
  ELSE Map(<<Entry(<<"i", "n", "n", "e", "r">>, Nested(n - 1, value))>>)

DebugBodies ==
  {Absent, Null, Str(<<"r", "a", "w">>)} \cup FlatObjects
    \cup {Nested(n, Map(<<Entry(k, Str(<<"s", "e", "c", "r", "e", "t">>))>>)) :
             n \in 1..MaxNesting, k \in {<<"p", "a", "s", "s", "w", "o", "r", "d">>, <<"T", "o", "k", "e", "n">>, <<"o", "k">>}}

DebugHeaders ==
  {Absent, Map(<<Entry(<<"A", "u", "t", "h", "o", "r", "i", "z", "a", "t", "i", "o", "n">>, Str(<<"B", "e", "a", "r", "e", "r", " ", "x", "y", "z">>))>>),
   Map(<<Entry(<<"X", "-", "C", "u", "s", "t", "o", "m">>, Str(<<"v", "1">>))>>)}

DebugRequests ==
  {ObjectOf(<<Entry(KeyMethod, Str(<<"P", "O", "S", "T">>)), Entry(KeyUrl, Str(<<"/", "a", "p", "i", "/", "t", "e", "s", "t">>)),
              Entry(KeyQs, q), Entry(KeyBody, b), Entry(KeyHeaders, h)>>) :
     q \in {Absent, Map(<<Entry(<<"t", "o", "k", "e", "n">>, Str(<<"a", "b", "c">>))>>)},
     b \in DebugBodies, h \in DebugHeaders}

\* ----------------------------------------------------------- FieldCoercer
\* String.prototype.trim, for blanks
RECURSIVE trimEnd(_)
trimEnd(chars) ==
  IF chars # <<>> /\ chars[Len(chars)] = " " THEN trimEnd(SubSeq(chars, 1, Len(chars) - 1))
  ELSE chars

trim(chars) == trimEnd(SkipSpaces(chars))

Delimited(chars, open, close) ==
  chars # <<>> /\ Head(chars) = open /\ chars[Len(chars)] = close

\* the result of JSON.parse in a try whose catch returns value
ParsedOr(parsed, value) == IF parsed.ok THEN parsed.value ELSE Str(value)

\* numberPattern.test(chars)
numberPattern(chars) == DecimalLiteral(chars).ok /\ DecimalLiteral(chars).rest = <<>>

\* coerceStringValue comparing the text as written with true, false, null
coerceStringValueCaseSensitive(value) ==
  Only({IF trimmed = <<>> THEN Str(value)
        ELSE IF trimmed = <<"t", "r", "u", "e">> THEN Bool(TRUE)
        ELSE IF trimmed = <<"f", "a", "l", "s", "e">> THEN Bool(FALSE)
        ELSE IF trimmed = <<"n", "u", "l", "l">> THEN Null
        ELSE IF numberPattern(trimmed) THEN DecimalLiteral(trimmed).value
        ELSE IF Delimited(trimmed, "{", "}") \/ Delimited(trimmed, "[", "]")
        THEN ParsedOr(JSONparse(trimmed), value)
        ELSE Str(value) :
        trimmed \in {trim(value)}})

coerceStringValue(value) ==
  Only({IF trimmed = <<>> THEN Str(value)
        ELSE IF lower = <<"t", "r", "u", "e">> THEN Bool(TRUE)
        ELSE IF lower = <<"f", "a", "l", "s", "e">> THEN Bool(FALSE)
        ELSE IF lower = <<"n", "u", "l", "l">> THEN Null
        ELSE IF numberPattern(trimmed) THEN DecimalLiteral(trimmed).value
        ELSE IF Delimited(trimmed, "{", "}") \/ Delimited(trimmed, "[", "]")
        THEN ParsedOr(JSONparse(trimmed), value)
        ELSE Str(value) :
        trimmed \in {trim(value)}, lower \in {toLowerCase(trim(value))}})

RECURSIVE coerceValue(_, _)
coerceValue(value, coerce) ==
  IF ~coerce THEN value
  ELSE IF value.t = "date" THEN Str(value.iso)
  ELSE IF value.t = "array"
  THEN Array([i \in 1..Len(value.a) |-> coerceValue(value.a[i], coerce)])
  ELSE IF value.t = "map"
  THEN Map([i \in 1..Len(value.e) |-> Entry(value.e[i].k, coerceValue(value.e[i].v, coerce))])
  ELSE IF value.t = "string" THEN coerceStringValue(value.s)
  ELSE value

\* the members that are not undefined
Defined(entries) == SelectSeq(entries, LAMBDA en : en.v.t # "undefined")

normalizeFields(fields, coerce) ==
  Map([i \in 1..Len(Defined(fields.e)) |->
         Entry(Defined(fields.e)[i].k, coerceValue(Defined(fields.e)[i].v, coerce))])

\* ------------------------------------------------------------- FormEncoder
\* the form value of a member writing objects with String, as scalars are
formValueString(value) ==
  IF value.t = "null" THEN Str(<<>>)
  ELSE Str(StringChars(value))

\* the form value of a member that is not undefined
formValue(value) ==
  IF value.t = "null" THEN Str(<<>>)
  ELSE IF IsObjectType(value) THEN JSONstringify(value)
  ELSE Str(StringChars(value))

buildFormData(fields) ==
  Map([i \in 1..Len(Defined(fields.e)) |->
         Entry(Defined(fields.e)[i].k, formValue(Defined(fields.e)[i].v))])

\* the texts of string members: blank, the literals in several letter
\* cases, numbers strict and not, JSON text well-formed and not, other text
StringLeaves ==
  {<<>>, <<" ", " ">>, <<"t", "r", "u", "e">>, <<"T", "R", "U", "E">>, <<" ", "T", "r", "u", "e", " ">>, <<"f", "a", "l", "s", "e">>, <<"F", "A", "L", "S", "E">>, <<"f", "A", "L", "S", "e">>,
   <<"n", "u", "l", "l">>, <<"N", "U", "L", "L">>, <<"N", "u", "l", "l">>, <<" ", "n", "u", "l", "l", " ">>, <<"t", "r", "u", "e", "x">>, <<"n", "u", "l", "l", "s">>,
   <<"1", "2", "3">>, <<" ", "1", "2", "3", " ">>, <<"-", "5">>, <<"0">>, <<"-", "0">>, <<"0", "0", "7">>, <<"0", "0">>, <<"1", ".", "5", "0">>, <<"-", "0", ".", "2", "5">>, <<"1", ".">>,
   <<".", "5">>, <<"1", "e", "3">>, <<"+", "1">>, <<"1", "2", " ", "3">>, <<"-">>, <<"1", ".", "2", ".", "3">>,
   <<"{", "\"", "h", "e", "l", "l", "o", "\"", ":", " ", "\"", "w", "o", "r", "l", "d", "\"", "}">>, <<"[", "1", ",", "2", "]">>, <<" ", "[", "1", ",", "2", "]", " ">>, <<"{", "b", "a", "d", "}">>, <<"[", "1", ",", "2">>, <<"{", "}">>, <<"[", "]">>,
   <<"{", "\"", "a", "\"", ":", "{", "\"", "b", "\"", ":", "[", "t", "r", "u", "e", ",", "n", "u", "l", "l", ",", "-", "1", ".", "5", ",", "\"", "x", "\"", "]", "}", "}">>, <<"[", "1", ",", "]">>, <<"{", "\"", "a", "\"", ":", "1", ",", "\"", "a", "\"", ":", "2", "}">>, <<"[", "\"", "q", "\\", "\"", "t", "\"", ",", "\"", "b", "\\", "\\", "s", "\"", "]">>,
   <<"[", "1", "e", "2", ",", "2", "E", "-", "1", "]">>, <<"[", "0", "1", "]">>, <<"{", "\"", "a", "\"", ":", "1", "}", "x">>, <<"{", "a", ":", "1", "}">>, <<"[", " ", "]">>, <<"{", " ", "\"", "a", "\"", " ", ":", " ", "[", " ", "]", " ", "}">>,
   <<"h", "e", "l", "l", "o">>, <<"\"", "x", "\"">>, <<"{">>, <<"]">>}

\* members that are no strings
OtherLeaves == {Num(5), Bool(TRUE), Null, Undefined, Date(<<"2", "0", "2", "0", "-", "0", "1", "-", "0", "2", "T", "0", "3", ":", "0", "4", ":", "0", "5", ".", "0", "0", "0", "Z">>)}

CoercionFields ==
  {Map(<<Entry(<<"f">>, Str(s))>>) : s \in StringLeaves}
    \cup {Map(<<Entry(<<"n", "e", "s", "t", "e", "d">>, Map(<<Entry(<<"o", "k">>, Str(s))>>))>>) : s \in StringLeaves}
    \cup {Map(<<Entry(<<"l", "i", "s", "t">>, Array(<<Str(s), Array(<<Str(<<"f", "a", "l", "s", "e">>)>>)>>)),
                Entry(<<"g">>, v)>>) : s \in StringLeaves, v \in OtherLeaves}
    \cup {Map(<<Entry(<<"a", "c", "t", "i", "v", "e">>, Str(<<"t", "r", "u", "e">>)), Entry(<<"c", "o", "u", "n", "t">>, Str(<<"1", "2", "3">>)),
                Entry(<<"m", "e", "t", "a">>, Str(<<"{", "\"", "h", "e", "l", "l", "o", "\"", ":", " ", "\"", "w", "o", "r", "l", "d", "\"", "}">>)), Entry(<<"l", "i", "s", "t">>, Str(<<"[", "1", ",", "2", "]">>)),
                Entry(<<"b", "l", "a", "n", "k">>, Str(<<" ", " ">>)), Entry(<<"n", "i", "l">>, Str(<<"n", "u", "l", "l">>)),
                Entry(<<"n", "e", "s", "t", "e", "d">>, Map(<<Entry(<<"o", "k">>, Str(<<"f", "a", "l", "s", "e">>))>>))>>)}

\* JSON values: scalars, then arrays and objects of them, then arrays and
\* objects of those
JsonScalars ==
  {Null, Bool(TRUE), Bool(FALSE), Num(0), Num(-12), DecimalNumber(15, 1), DecimalNumber(-5, 2),
   Str(<<>>), Str(<<"a", " ", "b">>), Str(<<"q", "\"", "t">>), Str(<<"b", "\\", "s">>), Str(<<"t", "r", "u", "e">>), Str(<<"1", "2">>),
   Str(<<"{", "}">>), Str(<<" ">>)}

JsonFlat ==
  {Array(<<>>), Map(<<>>)}
    \cup {Array(<<v>>) : v \in JsonScalars}
    \cup {Map(<<Entry(<<"a">>, v)>>) : v \in JsonScalars}
    \cup {Array(<<v, w>>) : v \in {Num(1), Str(<<"x">>)}, w \in {Num(2), Null, Bool(TRUE)}}
    \cup {Map(<<Entry(<<"o", "k">>, v), Entry(<<"k", " ", "2">>, w)>>) :
             v \in {Bool(TRUE), Str(<<"x">>)}, w \in {Num(2), Null}}

JsonObjects ==
  JsonFlat \cup {Array(<<v, Num(3)>>) : v \in JsonFlat}
          \cup {Map(<<Entry(<<"i", "n">>, v)>>) : v \in JsonFlat}

\* the fields handed to buildFormData: one member x holding a JSON value, an
\* object with a member that JSON leaves out, a Date, and scalars of each kind
FormFields ==
  {Map(<<Entry(<<"x">>, o)>>) : o \in JsonObjects}
    \cup {Map(<<Entry(<<"x">>, Map(<<Entry(<<"a">>, Undefined)>>))>>),
          Map(<<Entry(<<"x">>, Array(<<Date(<<"2", "0", "2", "0", "-", "0", "1", "-", "0", "2", "T", "0", "3", ":", "0", "4", ":", "0", "5", ".", "0", "0", "0", "Z">>)>>))>>)}
    \cup {Map(<<Entry(<<"n", "a", "m", "e">>, Str(<<"A", "l", "p", "h", "a">>)), Entry(<<"m", "e", "t", "a">>, Map(<<Entry(<<"o", "k">>, Bool(TRUE))>>)),
                Entry(<<"l", "i", "s", "t">>, Array(<<Num(1), Num(2)>>)), Entry(<<"e", "m", "p", "t", "y">>, Null),
                Entry(<<"g", "o", "n", "e">>, Undefined), Entry(<<"n">>, v)>>) :
             v \in JsonScalars \cup {Undefined}}

\* the base URLs and endpoints handed to normalizeBaseUrl and buildUrl: bases
\* with and without trailing slashes and with a path of their own; endpoints
\* with and without leading slash and /api/ prefix, with slashes in a row,
\* and URLs of several schemes
ComposeBases ==
  {BaseA, BaseA \o <<"/">>, BaseA \o <<"/", "/">>, BaseA \o <<"/", "/", "/">>,
   BaseA \o <<"/", "pb">>, BaseA \o <<"/", "pb", "/">>, <<"https:", "/", "/", "h", "/", "/">>}

ComposeEndpoints ==
  Endpoints
    \cup {<<>>, <<"/">>, <<"x">>, <<"/", "x">>, <<"x", "/">>, <<"/", "x", "/", "y">>,
          <<"api">>, <<"/", "api">>, <<"/", "api", "/">>, <<"api", "/", "x">>,
          <<"/", "api", "/", "x">>, <<"/", "apix", "/", "y">>, <<"/", "API", "/", "x">>,
          <<"/", "api", "/", "api", "/", "x">>,
          <<"/", "/", "x">>, <<"/", "a", "/", "/", "b">>, <<"/", "api", "/", "/", "x">>,
          <<"x", "/", "/">>,
          <<"http:", "/", "/", "o", "/", "x">>, <<"https:", "/", "/", "o">>,
          <<"HTTP:", "/", "/", "o", "/", "x">>, <<"ftp:", "/", "/", "o", "/", "x">>,
          <<"http:", "/", "x">>}

\* ----------------------------------------------------------------- execute
KeyError == <<"e", "r", "r", "o", "r">>

KeyFieldErrors == <<"f", "i", "e", "l", "d", "E", "r", "r", "o", "r", "s">>

KeyRaw == <<"r", "a", "w">>

KeyRawMeta == <<"_", "_", "r", "a", "w">>

KeyDebugMeta == <<"_", "_", "d", "e", "b", "u", "g">>

KeyItems == <<"i", "t", "e", "m", "s">>

KeyId == <<"i", "d">>

KeyDeleted == <<"d", "e", "l", "e", "t", "e", "d">>

KeyFormData == <<"f", "o", "r", "m", "D", "a", "t", "a">>

KeySkipAuth == <<"s", "k", "i", "p", "A", "u", "t", "h">>

KeyAuthorization == <<"A", "u", "t", "h", "o", "r", "i", "z", "a", "t", "i", "o", "n">>

\* { ...data }
SpreadOf(data) ==
  IF data.t = "string" THEN [i \in 1..Len(data.s) |-> Entry(NatChars(i - 1), Str(<<data.s[i]>>))]
  ELSE Entries(data)

attachMeta(data, includeRaw, includeDebug, rawResponse, debugInfo) ==
  Map((IF includeRaw /\ Truthy(rawResponse)
       THEN PutEntry(SpreadOf(data), KeyRawMeta, rawResponse)
       ELSE SpreadOf(data))
      \o (IF includeDebug /\ Truthy(debugInfo)
          THEN <<Entry(KeyDebugMeta, debugInfo)>>
          ELSE <<>>))

\* what an awaited call gave: a value, or an error of some class
Resolved(value) == [ok |-> TRUE, value |-> value, class |-> "", error |-> Undefined]

Rejected(class, error) == [ok |-> FALSE, value |-> Undefined, class |-> class, error |-> error]

\* one call of pocketBaseRequest made by execute
Requested(method, endpoint, body, qs, extraOptions) ==
  [method |-> method, endpoint |-> endpoint, body |-> body, qs |-> qs,
   extraOptions |-> extraOptions]

\* how the try block of one item ended: the operation, the calls of
\* pocketBaseRequest made, and the entries pushed or the error thrown
Pushed(item, calls, entries) ==
  [resource |-> item.resource, operation |-> item.operation, threw |-> FALSE,
   calls |-> calls, pushed |-> entries, class |-> "", error |-> Undefined]

Failed(item, calls, class, error) ==
  [resource |-> item.resource, operation |-> item.operation, threw |-> TRUE,
   calls |-> calls, pushed |-> <<>>, class |-> class, error |-> error]

\* the result of one awaited call of pocketBaseRequest handed on: the error
\* it threw, or what the rest of the operation pushes for its response
Awaited(item, calls, reply, entries) ==
  IF reply.ok THEN Pushed(item, calls, entries)
  ELSE Failed(item, calls, reply.class, reply.error)

\* new NodeOperationError(this.getNode(), message)
NodeOperationError(message) == ObjectOf(<<Entry(KeyMessage, Str(message))>>)

\* `/api/collections/${collection}/records`
RecordsEndpoint(collection) == <<"/", "a", "p", "i", "/", "c", "o", "l", "l", "e", "c", "t", "i", "o", "n", "s", "/">> \o collection \o <<"/", "r", "e", "c", "o", "r", "d", "s">>

\* `/api/collections/${collection}/records/${recordId}`
RecordEndpoint(collection, recordId) == RecordsEndpoint(collection) \o <<"/">> \o recordId

\* the debugInfo of an operation, when asked for
DebugInfoOf(includeDebug, request) ==
  IF includeDebug THEN buildDebugInfo(ObjectOf(request)) ELSE Undefined

\* the first of binaryEntries whose binaryProperty the item does not carry,
\* 0 when it carries them all
MissingBinary(item) ==
  IF \E k \in 1..Len(item.binaryEntries) :
       item.binaryEntries[k].binaryProperty \notin DOMAIN item.binary
  THEN CHOOSE k \in 1..Len(item.binaryEntries) :
         /\ item.binaryEntries[k].binaryProperty \notin DOMAIN item.binary
         /\ \A j \in 1..(k - 1) : item.binaryEntries[j].binaryProperty \in DOMAIN item.binary
  ELSE 0

\* `Binary property "${binaryProperty}" is missing on item ${i}.`
BinaryMissingText(binaryProperty, i) ==
  <<"B", "i", "n", "a", "r", "y", " ", "p", "r", "o", "p", "e", "r", "t", "y", " ", "\"">> \o binaryProperty \o <<"\"", " ", "i", "s", " ", "m", "i", "s", "s", "i", "n", "g", " ", "o", "n", " ", "i", "t", "e", "m", " ">> \o NatChars(i) \o <<".">>

\* the member of formData for one of binaryEntries
FileMember(entry, binaryData) ==
  Map(<<Entry(<<"v", "a", "l", "u", "e">>, [t |-> "buffer", of |-> entry.binaryProperty]),
        Entry(<<"o", "p", "t", "i", "o", "n", "s">>,
              Map(<<Entry(<<"f", "i", "l", "e", "n", "a", "m", "e">>,
                          IF entry.fileName # <<>> THEN Str(entry.fileName)
                          ELSE IF Truthy(binaryData.fileName) THEN binaryData.fileName
                          ELSE Str(<<"f", "i", "l", "e">>)),
                    Entry(<<"c", "o", "n", "t", "e", "n", "t", "T", "y", "p", "e">>, binaryData.mimeType)>>))>>)

\* formData after the loop over binaryEntries
RECURSIVE WithFiles(_, _, _)
WithFiles(members, binaryEntries, binary) ==
  IF binaryEntries = <<>> THEN members
  ELSE WithFiles(PutEntry(members, Head(binaryEntries).fieldName,
                          FileMember(Head(binaryEntries), binary[Head(binaryEntries).binaryProperty])),
                 Tail(binaryEntries), binary)

\* the call of pocketBaseRequest of create and update
WriteRequest(item, fields) ==
  Requested(IF item.operation = "create" THEN Str(<<"P", "O", "S", "T">>) ELSE Str(<<"P", "A", "T", "C", "H">>),
            IF item.operation = "create" THEN RecordsEndpoint(item.collection)
            ELSE RecordEndpoint(item.collection, item.recordId),
            IF item.binaryEntries # <<>> THEN Undefined ELSE fields,
            Undefined,
            IF item.binaryEntries # <<>>
            THEN Map(<<Entry(KeyFormData,
                             Map(WithFiles(buildFormData(fields).e, item.binaryEntries, item.binary)))>>)
            ELSE Map(<<>>))

\* resource 'record', operations 'create' and 'update'
recordWrite(item, i, replies) ==
  Only({IF item.binaryEntries # <<>> /\ MissingBinary(item) # 0
        THEN Failed(item, <<>>, "NodeOperationError",
                    NodeOperationError(BinaryMissingText(
                      item.binaryEntries[MissingBinary(item)].binaryProperty, i)))
        ELSE Awaited(item, <<WriteRequest(item, fields)>>, replies.first,
                     <<attachMeta(replies.first.value, item.includeRaw, item.includeDebug,
                                  replies.first.value,
                                  DebugInfoOf(item.includeDebug,
                                              <<Entry(KeyMethod, WriteRequest(item, fields).method),
                                                Entry(KeyUrl, Str(WriteRequest(item, fields).endpoint)),
                                                Entry(KeyBody, fields)>>))>>) :
        fields \in {normalizeFields(item.fields, item.coerceTypes)}})

\* resource 'record', operation 'get'
recordGet(item, i, replies) ==
  Only({Awaited(item, <<call>>, replies.first,
                <<attachMeta(replies.first.value, item.includeRaw, item.includeDebug,
                             replies.first.value,
                             DebugInfoOf(item.includeDebug,
                                         <<Entry(KeyMethod, call.method),
                                           Entry(KeyUrl, Str(call.endpoint))>>))>>) :
        call \in {Requested(Str(<<"G", "E", "T">>), RecordEndpoint(item.collection, item.recordId),
                            Undefined, Undefined, Map(<<>>))}})

\* resource 'record', operation 'delete'
recordDelete(item, i, replies) ==
  Only({Awaited(item, <<call>>, replies.first,
                <<attachMeta(output, item.includeRaw, item.includeDebug, output,
                             DebugInfoOf(item.includeDebug,
                                         <<Entry(KeyMethod, call.method),
                                           Entry(KeyUrl, Str(call.endpoint))>>))>>) :
        call \in {Requested(Str(<<"D", "E", "L", "E", "T", "E">>), RecordEndpoint(item.collection, item.recordId),
                            Undefined, Undefined, Map(<<>>))},
        output \in {Map(<<Entry(KeyId, Str(item.recordId)), Entry(KeyDeleted, Bool(TRUE))>>)}})

\* listOptions.perPage || 50
DefaultPerPage == 50

PerPageOf(item) ==
  IF Truthy(item.listOptions.perPage) THEN item.listOptions.perPage.n ELSE DefaultPerPage

\* listOptions.page || 1
StartPageOf(item) == IF Truthy(item.listOptions.page) THEN item.listOptions.page.n ELSE 1

\* qsBase: the list options that are set
QsBase(item) ==
  (IF Truthy(item.listOptions.filter) THEN <<Entry(<<"f", "i", "l", "t", "e", "r">>, item.listOptions.filter)>> ELSE <<>>)
    \o (IF Truthy(item.listOptions.sort) THEN <<Entry(<<"s", "o", "r", "t">>, item.listOptions.sort)>> ELSE <<>>)
    \o (IF Truthy(item.listOptions.expand) THEN <<Entry(<<"e", "x", "p", "a", "n", "d">>, item.listOptions.expand)>> ELSE <<>>)
    \o (IF Truthy(item.listOptions.fields) THEN <<Entry(<<"f", "i", "e", "l", "d", "s">>, item.listOptions.fields)>> ELSE <<>>)
    \o (IF item.listOptions.skipTotal = Bool(TRUE) THEN <<Entry(<<"s", "k", "i", "p", "T", "o", "t", "a", "l">>, Bool(TRUE))>> ELSE <<>>)

\* { ...qsBase, page, perPage }
PageQs(item, page) ==
  Map(QsBase(item) \o <<Entry(<<"p", "a", "g", "e">>, Num(page)), Entry(<<"p", "e", "r", "P", "a", "g", "e">>, Num(PerPageOf(item)))>>)

\* collected.length < limit, limit being Infinity with returnAll
BelowLimit(item, collected) == item.returnAll \/ Len(collected) < item.limit

\* (response.items as IDataObject[]) ?? []
ItemsOf(response) ==
  IF Get(response, KeyItems).t = "array" THEN Get(response, KeyItems).a ELSE <<>>

\* the items of one page that the inner loop collects
Collected(item, collected, items) ==
  IF item.returnAll \/ Len(collected) + Len(items) <= item.limit THEN items
  ELSE SubSeq(items, 1, item.limit - Len(collected))

\* the while loop of 'list': the pages asked for, the items collected, the
\* last response, and the reply that ended it when that was an error
RECURSIVE listPages(_, _, _, _, _, _)
listPages(item, replies, page, collected, calls, lastResponse) ==
  IF ~BelowLimit(item, collected)
  THEN [reply |-> Resolved(lastResponse), collected |-> collected, calls |-> calls]
  ELSE Only({IF ~reply.ok
             THEN [reply |-> reply, collected |-> collected, calls |-> Append(calls, call)]
             ELSE IF Len(ItemsOf(reply.value)) < PerPageOf(item)
             THEN [reply |-> reply, calls |-> Append(calls, call),
                   collected |-> collected \o Collected(item, collected, ItemsOf(reply.value))]
             ELSE listPages(item, replies, page + 1,
                            collected \o Collected(item, collected, ItemsOf(reply.value)),
                            Append(calls, call), reply.value) :
             reply \in {IF calls = <<>> THEN replies.first ELSE replies.second},
             call \in {Requested(Str(<<"G", "E", "T">>), RecordsEndpoint(item.collection), Undefined,
                                 PageQs(item, page), Map(<<>>))}})

\* rawMeta
RawMeta(lastResponse) ==
  IF Truthy(lastResponse)
  THEN Map(<<Entry(<<"p", "a", "g", "e">>, Get(lastResponse, <<"p", "a", "g", "e">>)),
             Entry(<<"p", "e", "r", "P", "a", "g", "e">>, Get(lastResponse, <<"p", "e", "r", "P", "a", "g", "e">>)),
             Entry(<<"t", "o", "t", "a", "l", "I", "t", "e", "m", "s">>, Get(lastResponse, <<"t", "o", "t", "a", "l", "I", "t", "e", "m", "s">>)),
             Entry(<<"t", "o", "t", "a", "l", "P", "a", "g", "e", "s">>, Get(lastResponse, <<"t", "o", "t", "a", "l", "P", "a", "g", "e", "s">>))>>)
  ELSE Map(<<>>)

\* resource 'record', operation 'list'
recordList(item, i, replies) ==
  Only({Awaited(item, pages.calls, pages.reply,
                [k \in 1..Len(pages.collected) |->
                   attachMeta(pages.collected[k], item.listOptions.includeRaw = Bool(TRUE),
                              item.listOptions.includeDebug = Bool(TRUE),
                              RawMeta(pages.reply.value),
                              DebugInfoOf(item.listOptions.includeDebug = Bool(TRUE),
                                          <<Entry(KeyMethod, Str(<<"G", "E", "T">>)),
                                            Entry(KeyUrl, Str(RecordsEndpoint(item.collection))),
                                            Entry(KeyQs, PageQs(item, StartPageOf(item)))>>))]) :
        pages \in {listPages(item, replies, StartPageOf(item), <<>>, <<>>, Undefined)}})

\* `Bearer ${token}`
BearerText(token) == Str(<<"B", "e", "a", "r", "e", "r", " ">> \o token.s)

\* 'Refresh requires a token. Provide one or configure credentials.'
RefreshTokenText == <<"R", "e", "f", "r", "e", "s", "h", " ", "r", "e", "q", "u", "i", "r", "e", "s", " ", "a", " ", "t", "o", "k", "e", "n", ".", " ", "P", "r", "o", "v", "i", "d", "e", " ", "o", "n", "e", " ", "o", "r", " ", "c", "o", "n", "f", "i", "g", "u", "r", "e", " ", "c", "r", "e", "d", "e", "n", "t", "i", "a", "l", "s", ".">>

\* the token 'refresh' sends: the refreshToken parameter, else what
\* getAuthToken gave, else ''
RefreshToken(item, replies) ==
  IF Truthy(item.refreshToken) THEN item.refreshToken
  ELSE Coalesce(<<replies.token.value, Str(<<>>)>>)

\* resource 'auth', operation 'refresh'
authRefresh(item, i, replies) ==
  IF ~Truthy(item.refreshToken) /\ ~replies.token.ok
  THEN Failed(item, <<>>, replies.token.class, replies.token.error)
  ELSE IF ~Truthy(RefreshToken(item, replies))
  THEN Failed(item, <<>>, "NodeOperationError", NodeOperationError(RefreshTokenText))
  ELSE Awaited(item,
               <<Requested(Str(<<"P", "O", "S", "T">>),
                           IF item.refreshType = "admin" THEN <<"/", "a", "p", "i", "/", "a", "d", "m", "i", "n", "s", "/", "a", "u", "t", "h", "-", "r", "e", "f", "r", "e", "s", "h">>
                           ELSE <<"/", "a", "p", "i", "/", "c", "o", "l", "l", "e", "c", "t", "i", "o", "n", "s", "/">> \o item.authCollection \o <<"/", "a", "u", "t", "h", "-", "r", "e", "f", "r", "e", "s", "h">>,
                           Undefined, Undefined,
                           Map(<<Entry(KeyHeaders,
                                       Map(<<Entry(KeyAuthorization,
                                                   BearerText(RefreshToken(item, replies)))>>)),
                                 Entry(KeySkipAuth, Bool(TRUE))>>))>>,
               replies.first, <<replies.first.value>>)

\* resource 'auth', operations 'adminLogin' and 'collectionLogin'
authLogin(item, i, replies) ==
  Awaited(item,
          <<Requested(Str(<<"P", "O", "S", "T">>),
                      IF item.operation = "adminLogin" THEN <<"/", "a", "p", "i", "/", "a", "d", "m", "i", "n", "s", "/", "a", "u", "t", "h", "-", "w", "i", "t", "h", "-", "p", "a", "s", "s", "w", "o", "r", "d">>
                      ELSE IF item.operation = "collectionLogin"
                      THEN <<"/", "a", "p", "i", "/", "c", "o", "l", "l", "e", "c", "t", "i", "o", "n", "s", "/">> \o item.authCollection \o <<"/", "a", "u", "t", "h", "-", "w", "i", "t", "h", "-", "p", "a", "s", "s", "w", "o", "r", "d">>
                      ELSE <<>>,
                      IF item.operation = "adminLogin"
                      THEN Map(<<Entry(<<"e", "m", "a", "i", "l">>, item.user), Entry(<<"p", "a", "s", "s", "w", "o", "r", "d">>, item.password)>>)
                      ELSE IF item.operation = "collectionLogin"
                      THEN Map(<<Entry(<<"i", "d", "e", "n", "t", "i", "t", "y">>, item.user), Entry(<<"p", "a", "s", "s", "w", "o", "r", "d">>, item.password)>>)
                      ELSE Map(<<>>),
                      Undefined,
                      Map(<<Entry(KeySkipAuth, Bool(TRUE))>>))>>,
          replies.first, <<replies.first.value>>)

\* method === 'GET' || method === 'DELETE' ? undefined : body
CustomBody(item) ==
  IF item.method \in {Str(<<"G", "E", "T">>), Str(<<"D", "E", "L", "E", "T", "E">>)} THEN Undefined ELSE item.body

\* resource 'custom'
customRequest(item, i, replies) ==
  Only({Awaited(item,
                <<Requested(item.method, item.endpoint, CustomBody(item), item.query, Map(<<>>))>>,
                replies.first,
                IF replies.first.value.t = "array"
                THEN [k \in 1..Len(replies.first.value.a) |->
                        attachMeta(replies.first.value.a[k], item.includeRaw, item.includeDebug,
                                   Map(<<Entry(KeyItems, replies.first.value)>>), debugInfo)]
                ELSE <<attachMeta(replies.first.value, item.includeRaw, item.includeDebug,
                                  replies.first.value, debugInfo)>>) :
        debugInfo \in {DebugInfoOf(item.includeDebug,
                                   <<Entry(KeyMethod, item.method), Entry(KeyUrl, Str(item.endpoint)),
                                     Entry(KeyQs, item.query), Entry(KeyBody, CustomBody(item))>>)}})

\* the try block of the loop of execute for item i, the awaited calls
\* answering with replies
processItem(item, i, replies) ==
  CASE item.resource = "record" /\ item.operation \in {"create", "update"} ->
         recordWrite(item, i, replies)
    [] item.resource = "record" /\ item.operation = "get" -> recordGet(item, i, replies)
    [] item.resource = "record" /\ item.operation = "delete" -> recordDelete(item, i, replies)
    [] item.resource = "record" /\ item.operation = "list" -> recordList(item, i, replies)
    [] item.resource = "auth" /\ item.operation = "refresh" -> authRefresh(item, i, replies)
    [] item.resource = "auth" -> authLogin(item, i, replies)
    [] item.resource = "custom" -> customRequest(item, i, replies)
    [] OTHER -> Pushed(item, <<>>, <<>>)

\* fieldErrors.join('; ')
RECURSIVE JoinTexts(_)
JoinTexts(texts) ==
  IF texts = <<>> THEN <<>>
  ELSE IF Len(texts) = 1 THEN texts[1].s
  ELSE texts[1].s \o <<";", " ">> \o JoinTexts(Tail(texts))

\* the entry pushed for an item that failed, under continueOnFail
errorEntry(error) ==
  Only({Map(<<Entry(KeyError, parsed.message), Entry(KeyCode, parsed.code),
              Entry(KeyStatusCode, parsed.statusCode),
              Entry(KeyFieldErrors, Array(parsed.fieldErrors)),
              Entry(KeyRaw, parsed.raw)>>) :
        parsed \in {extractPocketBaseError(error)}})

\* an error execute ends with
ExecuteThrows(class, error) == [kind |-> "thrown", type |-> class, error |-> error]

\* the error thrown for an item that failed, without continueOnFail: the
\* error itself when it is a NodeApiError or a NodeOperationError, else a
\* NodeOperationError made of what extractPocketBaseError gives
itemError(class, error) ==
  IF class \in {"NodeApiError", "NodeOperationError"} THEN ExecuteThrows(class, error)
  ELSE Only({ExecuteThrows("NodeOperationError",
                           Map(<<Entry(KeyMessage, parsed.message),
                                 Entry(<<"d", "e", "s", "c", "r", "i", "p", "t", "i", "o", "n">>,
                                       IF parsed.fieldErrors # <<>>
                                       THEN Str(JoinTexts(parsed.fieldErrors))
                                       ELSE Undefined)>>)) :
             parsed \in {extractPocketBaseError(error)}})

\* the catch clause aborting on every error, whatever continueOnFail says
catchClauseAlwaysThrows(result, continueOnFail) ==
  IF ~result.threw THEN [pushed |-> result.pushed, thrown |-> <<>>]
  ELSE [pushed |-> <<>>, thrown |-> <<itemError(result.class, result.error)>>]

\* one turn of the loop of execute after its try block ended with result:
\* the entries added to returnData and the error thrown, if any
catchClause(result, continueOnFail) ==
  IF ~result.threw THEN [pushed |-> result.pushed, thrown |-> <<>>]
  ELSE IF continueOnFail THEN [pushed |-> <<errorEntry(result.error)>>, thrown |-> <<>>]
  ELSE [pushed |-> <<>>, thrown |-> <<itemError(result.class, result.error)>>]

\* the longest batch of input items
MaxItems == 2

\* listOptions with nothing set
NoListOptions ==
  [filter |-> Undefined, sort |-> Undefined, expand |-> Undefined, fields |-> Undefined,
   skipTotal |-> Undefined, perPage |-> Undefined, page |-> Undefined,
   includeRaw |-> Undefined, includeDebug |-> Undefined]

\* items[i].binary with no property, and with the property data
NoBinary == [k \in {} |-> Undefined]

DataBinary ==
  [k \in {<<"d", "a", "t", "a">>} |-> [fileName |-> Str(<<"a", ".", "p", "n", "g">>), mimeType |-> Str(<<"i", "m", "a", "g", "e", "/", "p", "n", "g">>)]]

\* the parameters of one item as getNodeParameter gives them, and its binary
\* data; the constructors below set the ones their operation reads
ItemParameters ==
  [resource |-> "record", operation |-> "get", collection |-> <<"c">>, recordId |-> <<"r", "1">>,
   coerceTypes |-> TRUE, includeRaw |-> FALSE, includeDebug |-> FALSE,
   fields |-> Map(<<>>), binaryEntries |-> <<>>, binary |-> NoBinary,
   returnAll |-> FALSE, limit |-> 1, listOptions |-> NoListOptions,
   authCollection |-> <<"u">>, user |-> Str(<<"a", "@", "b", ".", "c">>), password |-> Str(<<"p", "w">>),
   refreshType |-> "admin", refreshToken |-> Str(<<>>),
   method |-> Str(<<"G", "E", "T">>), endpoint |-> <<"/", "x">>, query |-> Map(<<>>), body |-> Map(<<>>)]

BinaryEntry(binaryProperty) ==
  [fieldName |-> <<"f", "i", "l", "e">>, binaryProperty |-> binaryProperty, fileName |-> <<>>]

\* the items of the modelled batches: every operation of every resource,
\* uploads with the binary property present and missing, lists that stop at
\* the limit and at a short page, refreshes with and without a token
ExecuteItems ==
  {[ItemParameters EXCEPT !.operation = "create",
                          !.fields = Map(<<Entry(<<"t", "i", "t", "l", "e">>, Str(<<"t", "r", "u", "e">>))>>)],
   [ItemParameters EXCEPT !.operation = "update", !.binaryEntries = <<BinaryEntry(<<"d", "a", "t", "a">>)>>,
                          !.fields = Map(<<Entry(<<"t", "i", "t", "l", "e">>, Str(<<"x">>))>>),
                          !.binary = DataBinary],
   [ItemParameters EXCEPT !.operation = "update", !.binaryEntries = <<BinaryEntry(<<"d", "a", "t", "a">>)>>],
   [ItemParameters EXCEPT !.operation = "get", !.includeRaw = TRUE, !.includeDebug = TRUE],
   [ItemParameters EXCEPT !.operation = "delete"],
   [ItemParameters EXCEPT !.operation = "list", !.limit = 1,
                          !.listOptions = [NoListOptions EXCEPT !.perPage = Num(2)]],
   [ItemParameters EXCEPT !.operation = "list", !.returnAll = TRUE,
                          !.listOptions = [NoListOptions EXCEPT !.perPage = Num(2),
                                                                !.filter = Str(<<"a", "=", "1">>),
                                                                !.includeRaw = Bool(TRUE)]],
   [ItemParameters EXCEPT !.resource = "auth", !.operation = "adminLogin"],
   [ItemParameters EXCEPT !.resource = "auth", !.operation = "collectionLogin"],
   [ItemParameters EXCEPT !.resource = "auth", !.operation = "refresh",
                          !.refreshToken = Str(<<"t", "o", "k">>)],
   [ItemParameters EXCEPT !.resource = "auth", !.operation = "refresh",
                          !.refreshType = "collection"],
   [ItemParameters EXCEPT !.resource = "custom", !.operation = "request"],
   [ItemParameters EXCEPT !.resource = "custom", !.operation = "request",
                          !.method = Str(<<"P", "O", "S", "T">>), !.includeRaw = TRUE,
                          !.query = Map(<<Entry(<<"q">>, Num(1))>>),
                          !.body = Map(<<Entry(<<"p", "a", "s", "s", "w", "o", "r", "d">>, Str(<<"p", "w">>))>>)]}

\* a record of the backend
RecordOf(id) == Map(<<Entry(KeyId, Str(id))>>)

\* the errors the awaited calls reject with: a NodeApiError, and an error of
\* the transport with the backend's body
ApiError == ObjectOf(<<Entry(KeyMessage, Str(<<"B", "a", "d", " ", "r", "e", "q", "u", "e", "s", "t">>)), Entry(<<"h", "t", "t", "p", "C", "o", "d", "e">>, Str(<<"4", "0", "0">>))>>)

TransportError ==
  ObjectOf(<<Entry(KeyResponse,
                   ObjectOf(<<Entry(KeyStatusCode, Num(400)),
                              Entry(KeyBody,
                                    ObjectOf(<<Entry(KeyCode, Num(400)),
                                               Entry(KeyMessage, Str(<<"F", "a", "i", "l", "e", "d">>)),
                                               Entry(KeyData,
                                                     Map(<<Entry(<<"t", "i", "t", "l", "e">>, Str(<<"R", "e", "q", "u", "i", "r", "e", "d">>)),
                                                           Entry(<<"n">>, Str(<<"B", "a", "d">>))>>))>>))>>))>>)

\* what the awaited calls of one item answer, for the calls the item can
\* make: getAuthToken (a refresh without token), the first call of
\* pocketBaseRequest, and for a list the calls for the pages after the
\* first, which give a page that is not full
ExecuteReplies(item) ==
  [token : IF item.operation = "refresh" /\ ~Truthy(item.refreshToken)
           THEN {Resolved(Str(<<"c", "r", "e", "d">>)), Resolved(Null),
                 Rejected("NodeOperationError",
                          NodeOperationError(<<"P", "o", "c", "k", "e", "t", "B", "a", "s", "e", " ", "A", "P", "I", " ", "t", "o", "k", "e", "n", " ", "i", "s", " ", "m", "i", "s", "s", "i", "n", "g", " ", "i", "n", " ", "c", "r", "e", "d", "e", "n", "t", "i", "a", "l", "s", ".">>))}
           ELSE {Resolved(Null)},
   first : IF item.operation = "list"
           THEN {Resolved(Map(<<Entry(KeyItems, Array(<<RecordOf(<<"r", "1">>), RecordOf(<<"r", "2">>)>>)),
                                Entry(<<"p", "a", "g", "e">>, Num(1))>>)),
                 Rejected("NodeApiError", ApiError)}
           ELSE IF item.resource = "custom"
           THEN {Resolved(RecordOf(<<"r", "1">>)),
                 Resolved(Array(<<RecordOf(<<"r", "1">>), RecordOf(<<"r", "2">>)>>)),
                 Rejected("NodeApiError", ApiError), Rejected("Error", TransportError)}
           ELSE {Resolved(RecordOf(<<"r", "1">>)), Rejected("NodeApiError", ApiError)},
   second : IF item.operation = "list"
            THEN {Resolved(Map(<<Entry(KeyItems, Array(<<RecordOf(<<"r", "3">>)>>)),
                                 Entry(<<"p", "a", "g", "e">>, Num(2))>>)),
                  Rejected("Error", TransportError)}
            ELSE {Resolved(Null)}]

\* ----------------------------------------------------------------- actions
Set(f, c, v) == [f EXCEPT ![c] = v]

\* the rest of a call that sends its request, without a token, also when
\* getAuthToken threw
ContinueSendingAfterFailure(c, operation, cred, a, result) ==
  IF result.kind = "pending"
  THEN /\ pc' = Set(pc, c, "login")
       /\ UNCHANGED <<sent, outcome>>
  ELSE IF operation = "getAuthToken"
  THEN /\ pc' = Set(pc, c, "done")
       /\ UNCHANGED <<sent, outcome>>
  ELSE /\ pc' = Set(pc, c, "send")
       /\ sent' = Set(sent, c, <<requestOptions(a.method, a.endpoint, a.body, a.qs,
                                                a.extraOptions, cred,
                                                IF result.kind = "thrown" THEN Null
                                                ELSE result.value)>>)
       /\ outcome' = Set(outcome, c, Pending)

\* the rest of a call once getAuthToken has settled with result: the caller
\* of getAuthToken has its answer, pocketBaseRequest builds and sends its
\* request when a value was returned and fails when getAuthToken threw
Continue(c, operation, cred, a, result) ==
  IF result.kind = "pending"
  THEN /\ pc' = Set(pc, c, "login")
       /\ UNCHANGED <<sent, outcome>>
  ELSE IF operation = "getAuthToken"
  THEN /\ pc' = Set(pc, c, "done")
       /\ UNCHANGED <<sent, outcome>>
  ELSE IF result.kind = "thrown"
  THEN /\ pc' = Set(pc, c, "done")
       /\ outcome' = Set(outcome, c, result)
       /\ UNCHANGED sent
  ELSE /\ pc' = Set(pc, c, "send")
       /\ sent' = Set(sent, c, <<requestOptions(a.method, a.endpoint, a.body, a.qs,
                                                a.extraOptions, cred, result.value)>>)
       /\ outcome' = Set(outcome, c, Pending)

\* a call of getAuthToken, up to its first login call or its return
Invoke(c, operation, cred, a) ==
  LET r == getAuthTokenEntry(cred, staticData, now) IN
  /\ pc[c] = "idle"
  /\ op' = Set(op, c, operation)
  /\ credentials' = Set(credentials, c, cred)
  /\ args' = Set(args, c, a)
  /\ cacheOps' = Set(cacheOps, c, r.cacheOps)
  /\ logins' = Set(logins, c, r.login)
  /\ resolved' = Set(resolved, c, r.result)
  /\ Continue(c, operation, cred, a, r.result)
  /\ UNCHANGED <<now, staticData, caught, answers, processed, returnData>>

InvokeGetAuthToken(c) ==
  /\ pc[c] = "idle"
  /\ \E cred \in CredentialConfigs : Invoke(c, "getAuthToken", cred, NoArgs)

\* the settling of the login call in flight, and getAuthToken up to its next
\* login call or its end
LoginSettles(c, reply) ==
  LET cred == credentials[c]
      r == getAuthTokenResume(cred, reply, Len(logins[c]), caught[c])
      key == cacheKey(cred.authType, normalizeBaseUrl(cred.baseUrl))
  IN /\ pc[c] = "login"
     /\ caught' = Set(caught, c, IF reply.ok THEN caught[c] ELSE Append(caught[c], reply.error))
     /\ answers' = Set(answers, c, Append(answers[c], reply))
     /\ logins' = Set(logins, c, logins[c] \o r.login)
     /\ staticData' = IF r.write = <<>> THEN staticData ELSE Put(staticData, key, r.write[1])
     /\ cacheOps' = Set(cacheOps, c, IF r.write = <<>> THEN cacheOps[c]
                                     ELSE Append(cacheOps[c], "write"))
     /\ resolved' = Set(resolved, c, r.result)
     /\ Continue(c, op[c], cred, args[c], r.result)
     /\ UNCHANGED <<now, op, credentials, args, processed, returnData>>

\* the login call in flight resolves
LoginResolves(c) ==
  /\ pc[c] = "login"
  /\ op[c] = "getAuthToken"
  /\ \E response \in LoginResponses : LoginSettles(c, [ok |-> TRUE, response |-> response])

\* the login call in flight rejects
LoginRejects(c) ==
  /\ pc[c] = "login"
  /\ op[c] = "getAuthToken"
  /\ \E error \in TransportErrors : LoginSettles(c, [ok |-> FALSE, error |-> error])

\* a call of getAuthToken in admin or collection mode
InvokeResolution(c) ==
  /\ pc[c] = "idle"
  /\ \E cred \in TokenCredentials : Invoke(c, "getAuthToken", cred, NoArgs)

\* the login call in flight resolves with a token of some shape
LoginResolvesWithToken(c) ==
  /\ pc[c] = "login"
  /\ op[c] = "getAuthToken"
  /\ \E tok \in TokenShapes :
       LoginSettles(c, [ok |-> TRUE, response |-> [t |-> "object", token |-> Str(tok)]])

\* the login call in flight rejects for want of the endpoint
LoginEndpointMissing(c) ==
  /\ pc[c] = "login"
  /\ op[c] = "getAuthToken"
  /\ LoginSettles(c, [ok |-> FALSE, error |-> StatusError(Num(404))])

\* a call of getAuthToken made while another may be in flight
InvokeConcurrent(c) ==
  /\ pc[c] = "idle"
  /\ \E cred \in ConcurrentCredentials : Invoke(c, "getAuthToken", cred, NoArgs)

\* the login call of one of the resolutions in flight resolves
ConcurrentLoginResolves(c) ==
  /\ pc[c] = "login"
  /\ op[c] = "getAuthToken"
  /\ \E response \in ConcurrentResponses :
       LoginSettles(c, [ok |-> TRUE, response |-> response])

\* the login call of one of the resolutions in flight rejects
ConcurrentLoginRejects(c) ==
  /\ pc[c] = "login"
  /\ op[c] = "getAuthToken"
  /\ \E error \in ConcurrentErrors : LoginSettles(c, [ok |-> FALSE, error |-> error])

\* a call of getAuthToken with one of the credentials that share a key
InvokeIdentity(c) ==
  /\ pc[c] = "idle"
  /\ \E cred \in IdentityCredentials : Invoke(c, "getAuthToken", cred, NoArgs)

\* the backend answers the login call with a token of the identity the call
\* names
IdentityLoginResolves(c) ==
  /\ pc[c] = "login"
  /\ op[c] = "getAuthToken"
  /\ \E response \in IdentityResponses(logins[c][Len(logins[c])]) :
       LoginSettles(c, [ok |-> TRUE, response |-> response])

\* the backend does not have the endpoint of the login call
IdentityLoginRejects(c) ==
  /\ pc[c] = "login"
  /\ op[c] = "getAuthToken"
  /\ LoginSettles(c, [ok |-> FALSE, error |-> StatusError(Num(404))])

\* a call of pocketBaseRequest, up to its first network call or its failure
InvokePocketBaseRequest(c) ==
  /\ pc[c] = "idle"
  /\ \E cred \in DispatchCredentials, a \in DispatchArgs :
       IF skipAuthValue(a.extraOptions)
       THEN /\ op' = Set(op, c, "pocketBaseRequest")
            /\ credentials' = Set(credentials, c, cred)
            /\ args' = Set(args, c, a)
            /\ Continue(c, "pocketBaseRequest", cred, a, Returned(Null))
            /\ UNCHANGED <<now, staticData, logins, caught, answers, cacheOps, resolved,
                           processed, returnData>>
       ELSE Invoke(c, "pocketBaseRequest", cred, a)

\* the login call made on behalf of pocketBaseRequest resolves
DispatchLoginResolves(c) ==
  /\ pc[c] = "login"
  /\ op[c] = "pocketBaseRequest"
  /\ \E response \in DispatchLoginResponses :
       LoginSettles(c, [ok |-> TRUE, response |-> response])

\* the login call made on behalf of pocketBaseRequest rejects
DispatchLoginRejects(c) ==
  /\ pc[c] = "login"
  /\ op[c] = "pocketBaseRequest"
  /\ \E error \in DispatchLoginErrors :
       LoginSettles(c, [ok |-> FALSE, error |-> error])

\* the data request resolves: pocketBaseRequest returns the response
TransportResolves(c) ==
  /\ pc[c] = "send"
  /\ pc' = Set(pc, c, "done")
  /\ outcome' = Set(outcome, c, Returned([t |-> "object", ok |-> TRUE]))
  /\ UNCHANGED <<now, staticData, op, credentials, args, logins, caught, answers,
                 cacheOps, resolved, sent, processed, returnData>>

\* the catch clause rethrowing the transport's error as it came
requestFailureBare(error) ==
  [kind |-> "thrown", type |-> "Error", text |-> "", status |-> Undefined, cause |-> error]

\* the catch clause of pocketBaseRequest: new NodeApiError(this.getNode(), error)
requestFailure(error) == Thrown("NodeApiError", "", Undefined, error)

\* the data request rejects: pocketBaseRequest throws a NodeApiError
TransportRejects(c) ==
  /\ pc[c] = "send"
  /\ \E error \in DataErrors :
       /\ pc' = Set(pc, c, "done")
       /\ outcome' = Set(outcome, c, requestFailure(error))
  /\ UNCHANGED <<now, staticData, op, credentials, args, logins, caught, answers,
                 cacheOps, resolved, sent, processed, returnData>>

\* a call of extractPocketBaseError
CallExtractPocketBaseError(c) ==
  /\ pc[c] = "idle"
  /\ \E error \in ErrorInputs :
       /\ op' = Set(op, c, "extractPocketBaseError")
       /\ args' = Set(args, c, error)
       /\ outcome' = Set(outcome, c, Returned(extractPocketBaseError(error)))
  /\ pc' = Set(pc, c, "done")
  /\ UNCHANGED <<now, staticData, credentials, logins, caught, answers, cacheOps,
                 resolved, sent, processed, returnData>>

\* a call of buildDebugInfo
CallBuildDebugInfo(c) ==
  /\ pc[c] = "idle"
  /\ \E request \in DebugRequests :
       /\ op' = Set(op, c, "buildDebugInfo")
       /\ args' = Set(args, c, request)
       /\ outcome' = Set(outcome, c, Returned(buildDebugInfo(request)))
  /\ pc' = Set(pc, c, "done")
  /\ UNCHANGED <<now, staticData, credentials, logins, caught, answers, cacheOps,
                 resolved, sent, processed, returnData>>

\* a call of normalizeFields
CallNormalizeFields(c) ==
  /\ pc[c] = "idle"
  /\ \E fields \in CoercionFields, coerce \in BOOLEAN :
       /\ op' = Set(op, c, "normalizeFields")
       /\ args' = Set(args, c, [fields |-> fields, coerce |-> coerce])
       /\ outcome' = Set(outcome, c, Returned(normalizeFields(fields, coerce)))
  /\ pc' = Set(pc, c, "done")
  /\ UNCHANGED <<now, staticData, credentials, logins, caught, answers, cacheOps,
                 resolved, sent, processed, returnData>>

\* a call of buildFormData
CallBuildFormData(c) ==
  /\ pc[c] = "idle"
  /\ \E fields \in FormFields :
       /\ op' = Set(op, c, "buildFormData")
       /\ args' = Set(args, c, fields)
       /\ outcome' = Set(outcome, c, Returned(buildFormData(fields)))
  /\ pc' = Set(pc, c, "done")
  /\ UNCHANGED <<now, staticData, credentials, logins, caught, answers, cacheOps,
                 resolved, sent, processed, returnData>>

\* a call of buildUrl with the base URL normalizeBaseUrl gives, as its
\* callers make it
CallBuildUrl(c) ==
  /\ pc[c] = "idle"
  /\ \E baseUrl \in ComposeBases, endpoint \in ComposeEndpoints :
       /\ op' = Set(op, c, "buildUrl")
       /\ args' = Set(args, c, [baseUrl |-> baseUrl, endpoint |-> endpoint])
       /\ outcome' = Set(outcome, c, Returned(buildUrl(normalizeBaseUrl(baseUrl), endpoint)))
  /\ pc' = Set(pc, c, "done")
  /\ UNCHANGED <<now, staticData, credentials, logins, caught, answers, cacheOps,
                 resolved, sent, processed, returnData>>

\* a call of execute on a batch of items: getInputData, and the whole run
\* when the batch is empty
InvokeExecute(c) ==
  /\ pc[c] = "idle"
  /\ \E length \in 0..MaxItems, continueOnFail \in BOOLEAN :
       /\ op' = Set(op, c, "execute")
       /\ args' = Set(args, c, [length |-> length, continueOnFail |-> continueOnFail])
       /\ pc' = Set(pc, c, IF length = 0 THEN "done" ELSE "item")
       /\ outcome' = Set(outcome, c, IF length = 0 THEN Returned(Array(<<>>)) ELSE Pending)
  /\ UNCHANGED <<now, staticData, credentials, logins, caught, answers, cacheOps,
                 resolved, sent, processed, returnData>>

\* one turn of the loop of execute: the try block for item i and the catch
\* clause, then the return of execute after the last item
ExecuteItem(c) ==
  /\ pc[c] = "item"
  /\ \E item \in ExecuteItems : \E replies \in ExecuteReplies(item) :
       LET result == processItem(item, Len(processed[c]), replies)
           turn == catchClause(result, args[c].continueOnFail)
           entries == returnData[c] \o turn.pushed
       IN /\ processed' = Set(processed, c, Append(processed[c], result))
          /\ returnData' = Set(returnData, c, entries)
          /\ IF turn.thrown # <<>>
             THEN /\ pc' = Set(pc, c, "done")
                  /\ outcome' = Set(outcome, c, turn.thrown[1])
             ELSE IF Len(processed[c]) + 1 = args[c].length
             THEN /\ pc' = Set(pc, c, "done")
                  /\ outcome' = Set(outcome, c, Returned(Array(entries)))
             ELSE UNCHANGED <<pc, outcome>>
  /\ UNCHANGED <<now, staticData, op, credentials, args, logins, caught, answers,
                 cacheOps, resolved, sent>>

\* the caller takes the result; the call record is free for the next call
Return(c) ==
  /\ pc[c] = "done"
  /\ pc' = Set(pc, c, "idle")
  /\ op' = Set(op, c, "none")
  /\ credentials' = Set(credentials, c, Undefined)
  /\ args' = Set(args, c, NoArgs)
  /\ logins' = Set(logins, c, <<>>)
  /\ caught' = Set(caught, c, <<>>)
  /\ answers' = Set(answers, c, <<>>)
  /\ cacheOps' = Set(cacheOps, c, <<>>)
  /\ resolved' = Set(resolved, c, NotCalled)
  /\ sent' = Set(sent, c, <<>>)
  /\ outcome' = Set(outcome, c, NotCalled)
  /\ processed' = Set(processed, c, <<>>)
  /\ returnData' = Set(returnData, c, <<>>)
  /\ UNCHANGED <<now, staticData>>

\* time passes
Tick ==
  /\ now < MaxTicks * TickMillis
  /\ now' = now + TickMillis
  /\ UNCHANGED <<staticData, pc, op, credentials, args, logins, caught, answers,
                 cacheOps, resolved, sent, outcome, processed, returnData>>

\* the calls of getAuthToken of one workflow, one after the other
Next ==
  \/ Tick
  \/ InvokeGetAuthToken("c1")
  \/ LoginResolves("c1")
  \/ LoginRejects("c1")
  \/ Return("c1")

Spec == Init /\ [][Next]_vars

\* the resolutions of one workflow that log in, the backend answering with
\* tokens of every shape
NextTokens ==
  \/ Tick
  \/ InvokeResolution("c1")
  \/ LoginResolvesWithToken("c1")
  \/ LoginEndpointMissing("c1")
  \/ Return("c1")

SpecTokens == Init /\ [][NextTokens]_vars

\* two calls of getAuthToken of one workflow in flight at once: each runs
\* from one await to the next without interruption
NextConcurrent ==
  \/ Tick
  \/ InvokeConcurrent("c1")
  \/ InvokeConcurrent("c2")
  \/ ConcurrentLoginResolves("c1")
  \/ ConcurrentLoginResolves("c2")
  \/ ConcurrentLoginRejects("c1")
  \/ ConcurrentLoginRejects("c2")
  \/ Return("c1")
  \/ Return("c2")

SpecConcurrent == Init /\ [][NextConcurrent]_vars

\* the calls of getAuthToken of a node whose credentials change from one
\* call to the next
NextIdentities ==
  \/ Tick
  \/ InvokeIdentity("c1")
  \/ IdentityLoginResolves("c1")
  \/ IdentityLoginRejects("c1")
  \/ Return("c1")

SpecIdentities == Init /\ [][NextIdentities]_vars

\* the key of data another part of the workflow keeps in the store
OtherKey == <<"lastRun">>

\* a store left by an earlier execution: data of another owner, and the
\* entry of an admin token that expired meanwhile
StoredData ==
  [k \in {OtherKey, cacheKey("admin", BaseA)} |->
     IF k = OtherKey THEN Num(7)
     ELSE [t |-> "object", token |-> Str(JwtToken("old", Num(20))), expiresAt |-> Num(20000)]]

InitStored ==
  /\ now = 0
  /\ staticData = StoredData
  /\ pc = [c \in Calls |-> "idle"]
  /\ op = [c \in Calls |-> "none"]
  /\ credentials = [c \in Calls |-> Undefined]
  /\ args = [c \in Calls |-> NoArgs]
  /\ logins = [c \in Calls |-> <<>>]
  /\ caught = [c \in Calls |-> <<>>]
  /\ answers = [c \in Calls |-> <<>>]
  /\ cacheOps = [c \in Calls |-> <<>>]
  /\ resolved = [c \in Calls |-> NotCalled]
  /\ sent = [c \in Calls |-> <<>>]
  /\ outcome = [c \in Calls |-> NotCalled]
  /\ processed = [c \in Calls |-> <<>>]
  /\ returnData = [c \in Calls |-> <<>>]

\* the calls of getAuthToken of one workflow on a store that is not empty
SpecStored == InitStored /\ [][Next]_vars

\* the calls of pocketBaseRequest of one workflow, one after the other
NextDispatch ==
  \/ Tick
  \/ InvokePocketBaseRequest("c1")
  \/ DispatchLoginResolves("c1")
  \/ DispatchLoginRejects("c1")
  \/ TransportResolves("c1")
  \/ TransportRejects("c1")
  \/ Return("c1")

SpecDispatch == Init /\ [][NextDispatch]_vars

\* the calls of the helpers that compute a value from their arguments alone
NextHelpers ==
  \/ CallExtractPocketBaseError("c1")
  \/ CallBuildDebugInfo("c1")
  \/ CallNormalizeFields("c1")
  \/ CallBuildFormData("c1")
  \/ CallBuildUrl("c1")
  \/ Return("c1")

SpecHelpers == Init /\ [][NextHelpers]_vars

\* the runs of the node on batches of input items, one after the other
NextExecute ==
  \/ InvokeExecute("c1")
  \/ ExecuteItem("c1")
  \/ Return("c1")

SpecExecute == Init /\ [][NextExecute]_vars

\* ===================================================================
\* Properties
\* ===================================================================
\* n slashes
Slashes(n) == [i \in 1..n |-> "/"]

\* url is the base without its trailing slashes, followed by path
UrlIs(url, base, path) ==
  \E k \in 0..Len(base) :
    LET stripped == SubSeq(base, 1, k) IN
    /\ base = stripped \o Slashes(Len(base) - k)
    /\ (stripped = <<>> \/ stripped[Len(stripped)] # "/")
    /\ url = stripped \o path

IsAbsolute(endpoint) ==
  /\ Len(endpoint) >= 3
  /\ endpoint[1] \in {"http:", "https:"}
  /\ endpoint[2] = "/"
  /\ endpoint[3] = "/"

\* the path below /api/ a relative endpoint names
ApiPath(endpoint) ==
  LET unslashed == IF endpoint # <<>> /\ endpoint[1] = "/" THEN Tail(endpoint) ELSE endpoint
  IN IF Len(unslashed) >= 2 /\ unslashed[1] = "api" /\ unslashed[2] = "/"
     THEN Tail(Tail(unslashed))
     ELSE unslashed

\* the headers the caller of pocketBaseRequest supplied
CallerHeaders(c) ==
  IF "headers" \in DOMAIN args[c].extraOptions
  THEN args[c].extraOptions.headers
  ELSE [t |-> "object"]

Dispatched(c) == op[c] = "pocketBaseRequest" /\ pc[c] \in {"send", "done"}

SkipsAuth(c) ==
  /\ "skipAuth" \in DOMAIN args[c].extraOptions
  /\ args[c].extraOptions.skipAuth = Bool(TRUE)

\* C1: every request pocketBaseRequest sends without skipAuth, after
\* getAuthToken returned a token, carries every header the caller supplied,
\* and carries Authorization: Bearer <token> whenever the caller supplied no
\* Authorization header of its own.
C1_AuthorizationWithCallerHeaders ==
  \A c \in Calls :
    (/\ Dispatched(c)
     /\ ~SkipsAuth(c)
     /\ sent[c] # <<>>
     /\ resolved[c].kind = "returned"
     /\ resolved[c].value.t = "string")
    => LET headers == sent[c][1].headers
           given == CallerHeaders(c)
       IN /\ \A name \in (DOMAIN given) \ {"Authorization"} :
               name \in DOMAIN headers /\ headers[name] = given[name]
          /\ "Authorization" \notin DOMAIN given
               => /\ "Authorization" \in DOMAIN headers
                  /\ headers.Authorization = Str(<<"Bearer ", resolved[c].value>>)

\* C2: a call of pocketBaseRequest with skipAuth = true never calls
\* getAuthToken, makes no login call, leaves the token cache alone, sends
\* exactly one request, with the caller's headers and nothing added, to the
\* base URL without trailing slashes followed by /api/<path> (to the endpoint
\* itself when the endpoint is an absolute URL).
C2_SkipAuthSendsOneBareRequest ==
  \A c \in Calls :
    (Dispatched(c) /\ SkipsAuth(c))
    => /\ resolved[c] = NotCalled
       /\ logins[c] = <<>>
       /\ answers[c] = <<>>
       /\ cacheOps[c] = <<>>
       /\ Len(sent[c]) = 1
       /\ sent[c][1].headers = CallerHeaders(c)
       /\ IF IsAbsolute(args[c].endpoint)
          THEN sent[c][1].url = args[c].endpoint
          ELSE UrlIs(sent[c][1].url, credentials[c].baseUrl,
                     <<"/", "api", "/">> \o ApiPath(args[c].endpoint))

\* C2 witness: a finished skipAuth call on a base URL with trailing slashes
\* and a relative endpoint, made while a token was configured
C2_Witness ==
  \E c \in Calls :
    /\ pc[c] = "done"
    /\ op[c] = "pocketBaseRequest"
    /\ SkipsAuth(c)
    /\ credentials[c].authType = "token"
    /\ credentials[c].baseUrl = BaseA \o <<"/">>
    /\ args[c].endpoint = <<"/", "collections", "/", "x", "/", "records">>
    /\ sent[c][1].url = BaseA \o <<"/", "api", "/", "collections", "/", "x", "/", "records">>

\* the decimal writing of the status codes used here
Decimal(n) ==
  CASE n = 400 -> <<"4", "0", "0">>
    [] n = 401 -> <<"4", "0", "1">>
    [] n = 404 -> <<"4", "0", "4">>
    [] n = 405 -> <<"4", "0", "5">>
    [] n = 410 -> <<"4", "1", "0">>
    [] n = 500 -> <<"5", "0", "0">>

\* the values an error holds where a status is looked for
StatusPlaces(error) ==
  LET names == {"statusCode", "httpCode", "status"} IN
  {Field(error, name) : name \in names}
    \cup {Field(Field(error, "response"), name) : name \in names}
    \cup {Field(Field(error, "cause"), name) : name \in names}

\* the error carries status n, as a number or as a numeric string
CarriesStatus(error, n) ==
  \E v \in StatusPlaces(error) : v = Num(n) \/ v = Str(Decimal(n))

EndpointNotPresent(error) == \E n \in {404, 405, 410} : CarriesStatus(error, n)

\* the response of a login call holds a non-empty token
HasToken(response) ==
  /\ response.t = "object"
  /\ "token" \in DOMAIN response
  /\ response.token.t = "string"
  /\ response.token.s # <<>>

InMode(c, authType) == pc[c] # "idle" /\ credentials[c].authType = authType

\* the resolution ended on the cache: one read, no login, a token returned
CacheHit(c) ==
  /\ logins[c] = <<>>
  /\ cacheOps[c] = <<"read">>
  /\ resolved[c].kind = "returned"
  /\ resolved[c].value.t = "string"

SuperuserBody(c) ==
  [t |-> "object", identity |-> credentials[c].adminEmail,
   password |-> credentials[c].adminPassword]

LegacyBody(c) ==
  [t |-> "object", email |-> credentials[c].adminEmail,
   password |-> credentials[c].adminPassword]

ToSuperusers(c, i) ==
  UrlIs(logins[c][i].url, credentials[c].baseUrl,
        <<"/", "api", "/", "collections", "/", "_superusers", "/", "auth-with-password">>)

ToAdmins(c, i) ==
  UrlIs(logins[c][i].url, credentials[c].baseUrl,
        <<"/", "api", "/", "admins", "/", "auth-with-password">>)

C4_AdminsEndpointFirst ==
  \A c \in Calls :
    (/\ InMode(c, "admin")
     /\ pc[c] = "done"
     /\ Len(answers[c]) = 2
     /\ answers[c][1] = [ok |-> FALSE, error |-> [t |-> "object", statusCode |-> Num(404)]]
     /\ answers[c][2].ok
     /\ HasToken(answers[c][2].response))
    => /\ Len(logins[c]) = 2
       /\ ToAdmins(c, 1)
       /\ ToSuperusers(c, 2)
       /\ logins[c][2].body = SuperuserBody(c)
       /\ resolved[c] = Returned(answers[c][2].response.token)

\* C5: in admin mode a first login call rejected with status 404, 405 or
\* 410, as a number or as a numeric string, is followed by exactly one
\* second login call, to the other admin endpoint, and when that call
\* answers with a token the resolution returns that token; a first login
\* call rejected with status 500 is followed by no login call and the
\* resolution fails.
C5_FallbackOnEndpointNotPresent ==
  \A c \in Calls :
    (InMode(c, "admin") /\ answers[c] # <<>> /\ ~answers[c][1].ok)
    => LET first == answers[c][1].error IN
       /\ EndpointNotPresent(first)
            => /\ Len(logins[c]) = 2
               /\ \/ ToSuperusers(c, 1) /\ ToAdmins(c, 2)
                  \/ ToAdmins(c, 1) /\ ToSuperusers(c, 2)
               /\ Len(answers[c]) = 1 => pc[c] = "login"
               /\ (/\ Len(answers[c]) = 2
                   /\ answers[c][2].ok
                   /\ HasToken(answers[c][2].response))
                    => /\ pc[c] = "done"
                       /\ resolved[c] = Returned(answers[c][2].response.token)
       /\ CarriesStatus(first, 500)
            => /\ Len(logins[c]) = 1
               /\ Len(answers[c]) = 1
               /\ pc[c] = "done"
               /\ resolved[c].kind = "thrown"

\* C5 witness: a first rejection with the string "404", then a login that
\* answered with a token
C5_Witness ==
  \E c \in Calls :
    /\ InMode(c, "admin")
    /\ pc[c] = "done"
    /\ Len(answers[c]) = 2
    /\ answers[c][1] = [ok |-> FALSE,
                        error |-> [t |-> "object", statusCode |-> Str(<<"4", "0", "4">>)]]
    /\ answers[c][2].ok
    /\ HasToken(answers[c][2].response)
    /\ resolved[c].kind = "returned"

\* C6: in admin mode a first login call rejected with anything but status
\* 404, 405 or 410, a rejection without status included, is followed by no
\* second login call and the resolution fails.
C6_OnlyEndpointNotPresentAbsorbed ==
  \A c \in Calls :
    (/\ InMode(c, "admin")
     /\ answers[c] # <<>>
     /\ ~answers[c][1].ok
     /\ ~EndpointNotPresent(answers[c][1].error))
    => /\ Len(logins[c]) = 1
       /\ pc[c] = "done"
       /\ resolved[c].kind = "thrown"

\* C7: in collection mode a resolution that is not served from the cache
\* makes exactly one login call, a POST to
\* /api/collections/<collectionName>/auth-with-password with {identity,
\* password}; when that call is rejected, whatever the status, the
\* resolution fails with a NodeApiError and no second login call is made.
C7_CollectionSingleLogin ==
  \A c \in Calls :
    InMode(c, "collection")
    => /\ Len(logins[c]) <= 1
       /\ logins[c] = <<>> => CacheHit(c)
       /\ logins[c] # <<>>
            => /\ logins[c][1].method = "POST"
               /\ UrlIs(logins[c][1].url, credentials[c].baseUrl,
                        <<"/", "api", "/", "collections", "/", credentials[c].authCollection,
                          "/", "auth-with-password">>)
               /\ logins[c][1].body = [t |-> "object", identity |-> credentials[c].identity,
                                       password |-> credentials[c].password]
       /\ (answers[c] # <<>> /\ ~answers[c][1].ok)
            => /\ pc[c] = "done"
               /\ Len(answers[c]) = 1
               /\ resolved[c].kind = "thrown"
               /\ resolved[c].type = "NodeApiError"
               /\ resolved[c].cause = answers[c][1].error

\* C7 witness: a collection login rejected with status 404
C7_Witness ==
  \E c \in Calls :
    /\ InMode(c, "collection")
    /\ pc[c] = "done"
    /\ Len(logins[c]) = 1
    /\ answers[c] = <<[ok |-> FALSE, error |-> [t |-> "object", statusCode |-> Num(404)]]>>
    /\ resolved[c].kind = "thrown"

\* the cache key of a credential configuration: mode and base URL without
\* trailing slashes
KeyOf(key, cred) ==
  /\ Len(key) = 4
  /\ key[2] = cred.authType
  /\ UrlIs(key[4], cred.baseUrl, <<>>)

\* an entry with a token and either no expiry or an expiry more than 30
\* seconds after t
ValidAt(entry, t) ==
  /\ entry.token.t = "string"
  /\ entry.token.s # <<>>
  /\ \/ entry.expiresAt.t = "undefined"
     \/ entry.expiresAt.t = "number" /\ t < entry.expiresAt.n - 30000

\* C8: a resolution in admin or collection mode that starts while the cache
\* holds a valid entry under its key returns the token of that entry, makes
\* no login call and does not write the cache.
C8_ValidCacheEntryReturned ==
  [][\A c \in Calls :
       \A key \in DOMAIN staticData :
         (/\ pc[c] = "idle"
          /\ pc'[c] # "idle"
          /\ op'[c] = "getAuthToken"
          /\ credentials'[c].authType \in {"admin", "collection"}
          /\ KeyOf(key, credentials'[c])
          /\ ValidAt(staticData[key], now))
         => /\ pc'[c] = "done"
            /\ resolved'[c] = Returned(staticData[key].token)
            /\ logins'[c] = <<>>
            /\ cacheOps'[c] = <<"read">>
            /\ staticData' = staticData]_vars

\* C8 witness: a resolution served from the cache, for a base URL written
\* with trailing slashes, by an entry that has no expiry
C8_Witness ==
  \E c \in Calls :
    /\ InMode(c, "admin")
    /\ pc[c] = "done"
    /\ credentials[c].baseUrl = BaseA \o <<"/", "/">>
    /\ CacheHit(c)
    /\ \E key \in DOMAIN staticData :
         /\ KeyOf(key, credentials[c])
         /\ staticData[key].token = resolved[c].value
         /\ staticData[key].expiresAt = Undefined

Valid(entry, t) == Truthy(entry.token) /\ ~isExpired(entry.expiresAt, t)

\* C9 as stated: an entry is valid exactly when it has no expiry or the
\* current time is more than 30 000 ms before its expiry.
C9_ValidIffMoreThanMarginAhead ==
  \A key \in DOMAIN staticData :
    LET entry == staticData[key] IN
    Valid(entry, now)
      <=> (entry.expiresAt = Undefined \/ now < entry.expiresAt.n - 30000)

\* C9: an entry is valid exactly when it has no expiry, or an expiry of 0,
\* or the current time is at least 30 000 ms before its expiry; an entry
\* expiring 10 s ahead is invalid, one expiring 60 s ahead is valid.
C9_ValidIffAtLeastMarginAhead ==
  \A key \in DOMAIN staticData :
    LET entry == staticData[key] IN
    /\ Valid(entry, now)
         <=> \/ entry.expiresAt = Undefined
             \/ entry.expiresAt = Num(0)
             \/ now <= entry.expiresAt.n - 30000
    /\ entry.expiresAt = Num(now + 10000) => ~Valid(entry, now)
    /\ entry.expiresAt = Num(now + 60000) => Valid(entry, now)

\* C9 witness: an entry that expires exactly 30 000 ms ahead
C9_Witness ==
  \E key \in DOMAIN staticData :
    /\ staticData[key].expiresAt = Num(40000)
    /\ now = 10000

\* C10: in token mode the resolution returns the configured token, and
\* fails with a NodeOperationError when the token is absent or empty; in
\* none mode it returns null; in both modes it ends without a login call
\* and without an access to the cache.
C10_StaticTokenAndNone ==
  \A c \in Calls :
    (pc[c] # "idle" /\ op[c] = "getAuthToken"
       /\ credentials[c].authType \in {"token", "none"})
    => /\ pc[c] = "done"
       /\ logins[c] = <<>>
       /\ answers[c] = <<>>
       /\ cacheOps[c] = <<>>
       /\ credentials[c].authType = "none" => resolved[c] = Returned(Null)
       /\ credentials[c].authType = "token"
            => LET apiToken == credentials[c].apiToken IN
               IF apiToken.t = "string" /\ apiToken.s # <<>>
               THEN resolved[c] = Returned(apiToken)
               ELSE /\ resolved[c].kind = "thrown"
                    /\ resolved[c].type = "NodeOperationError"
                    /\ resolved[c].text = "PocketBase API token is missing in credentials."

\* C10 witness: a token-mode resolution with an empty token, run while the
\* cache holds an entry
C10_Witness ==
  \E c \in Calls :
    /\ InMode(c, "token")
    /\ op[c] = "getAuthToken"
    /\ credentials[c].apiToken = Str(<<>>)
    /\ resolved[c].kind = "thrown"
    /\ DOMAIN staticData # {}

\* the answer to the last login call of c
LastAnswer(c) == answers[c][Len(answers[c])]

\* C11: when a login call resolves with a response that has no token member,
\* or an empty one, getAuthToken ends there with the NodeOperationError
\* 'PocketBase authentication response did not include a token.': it returns
\* no token and stores nothing in the token cache.
C11_ResponseWithoutToken ==
  [][\A c \in Calls :
       (/\ pc[c] = "login"
        /\ Len(answers'[c]) = Len(answers[c]) + 1
        /\ LastAnswer(c)'.ok
        /\ LastAnswer(c)'.response.t = "object"
        /\ ~HasToken(LastAnswer(c)'.response))
       => /\ pc'[c] = "done"
          /\ resolved'[c].kind = "thrown"
          /\ resolved'[c].type = "NodeOperationError"
          /\ resolved'[c].text = "PocketBase authentication response did not include a token."
          /\ logins'[c] = logins[c]
          /\ cacheOps'[c] = cacheOps[c]
          /\ staticData' = staticData]_vars

\* C11 witness: an admin login whose second call resolved with an empty
\* token, while the cache held an entry of an earlier call
C11_Witness ==
  \E c \in Calls :
    /\ InMode(c, "admin")
    /\ pc[c] = "done"
    /\ Len(answers[c]) = 2
    /\ LastAnswer(c) = [ok |-> TRUE, response |-> [t |-> "object", token |-> Str(<<>>)]]
    /\ resolved[c].kind = "thrown"
    /\ resolved[c].type = "NodeOperationError"
    /\ DOMAIN staticData # {}

\* C12: pocketBaseRequest hands at most one data request to the transport,
\* and when that request was rejected it throws a NodeApiError whose cause
\* is the transport's error, never the transport's error itself.
C12_TransportFailureWrappedNoRetry ==
  \A c \in Calls :
    Dispatched(c)
    => /\ Len(sent[c]) <= 1
       /\ (pc[c] = "done" /\ sent[c] # <<>> /\ outcome[c].kind = "thrown")
            => /\ outcome[c].type = "NodeApiError"
               /\ outcome[c].cause \in DataErrors

\* C12 witness: after a login, the data request was rejected with status 400
C12_Witness ==
  \E c \in Calls :
    /\ Dispatched(c)
    /\ pc[c] = "done"
    /\ logins[c] # <<>>
    /\ Len(sent[c]) = 1
    /\ outcome[c].kind = "thrown"
    /\ outcome[c].cause = StatusError(Num(400))

\* c is a finished call of extractPocketBaseError: args[c] is the error it
\* was given, outcome[c].value the object it returned
Extracted(c) == pc[c] = "done" /\ op[c] = "extractPocketBaseError"

\* the body by the stated precedence: error.response.body, else
\* error.response.data, else error.body, else the error
StatedBody(error) ==
  Coalesce(<<Get(Get(error, KeyResponse), KeyBody), Get(Get(error, KeyResponse), KeyData),
             Get(error, KeyBody), error>>)

\* C13: raw is the resolved body, which is error.response.body, else
\* error.response.data, else error.body, else the error itself; an error
\* with neither response nor body is its own body.
C13_BodyPrecedence ==
  \A c \in Calls :
    Extracted(c)
    => /\ outcome[c].value.raw = StatedBody(args[c])
       /\ (Get(args[c], KeyResponse).t = "undefined" /\ Get(args[c], KeyBody).t = "undefined")
            => outcome[c].value.raw = args[c]

\* the status by the stated precedence: response.statusCode, else
\* response.status, else the top-level statusCode
StatedStatus(error) ==
  Coalesce(<<Get(Get(error, KeyResponse), KeyStatusCode),
             Get(Get(error, KeyResponse), KeyStatus), Get(error, KeyStatusCode)>>)

\* C14: statusCode is read from response.statusCode, else response.status,
\* else the top-level statusCode, and is a number or undefined: a numeric
\* string is parsed, an unparsable value gives undefined.
C14_StatusCodeNumberOrUndefined ==
  \A c \in Calls :
    Extracted(c)
    => LET stated == StatedStatus(args[c])
           statusCode == outcome[c].value.statusCode
       IN /\ statusCode.t \in {"number", "undefined"}
          /\ stated.t = "number" => statusCode = stated
          /\ stated.t = "string" => statusCode = parseIntFinite(stated.s)
          /\ stated.t \notin {"number", "string"} => statusCode = Undefined

\* C15: message is never empty: it is body.message, else error.message, else
\* 'PocketBase request failed'.
C15_MessageNeverEmpty ==
  \A c \in Calls :
    Extracted(c)
    => LET body == outcome[c].value.raw
           message == outcome[c].value.message
       IN /\ message.t = "string"
          /\ message.s # <<>>
          /\ message = Coalesce(<<Get(body, KeyMessage), Get(args[c], KeyMessage),
                                  Str(RequestFailedText)>>)

\* the detail of a field error as stated: the entry if it is a string, its
\* message member if it has one, its JSON text otherwise
StatedDetail(details) ==
  IF details.t = "string" THEN details.s
  ELSE IF Get(details, KeyMessage).t # "undefined" THEN StringChars(Get(details, KeyMessage))
  ELSE StringChars(JSONstringify(details))

\* C16: fieldErrors has one string '<field>: <detail>' per entry of
\* body.data, in key order, when body.data is a key-value map, and is empty
\* otherwise; detail is the entry if it is a string, its message member if
\* present, its JSON text otherwise.
C16_FieldErrorsPerEntry ==
  \A c \in Calls :
    Extracted(c)
    => LET data == Get(outcome[c].value.raw, KeyData)
           fieldErrors == outcome[c].value.fieldErrors
       IN IF data.t = "map"
          THEN /\ Len(fieldErrors) = Len(data.e)
               /\ \A i \in 1..Len(data.e) :
                    fieldErrors[i] = Str(data.e[i].k \o <<":", " ">> \o StatedDetail(data.e[i].v))
          ELSE fieldErrors = <<>>

\* the detail of a field error: the entry if it is a string, its message
\* member if that is a non-empty string, its JSON text otherwise
DetailOf(details) ==
  IF details.t = "string" THEN details.s
  ELSE IF Get(details, KeyMessage).t = "string" /\ Get(details, KeyMessage).s # <<>>
  THEN Get(details, KeyMessage).s
  ELSE JsonText(details)

\* C16, amended: fieldErrors has one string '<field>: <detail>' per entry of
\* body.data, in the order of Object.entries, when body.data is an object or
\* an array (whose fields are its indices), and is empty otherwise; detail is
\* the entry if it is a string, its message member if that is not empty, its
\* JSON text otherwise; {code: 'x'} under title gives 'title: {"code":"x"}'.
C16_FieldErrorsPerEntryTruthyMessage ==
  \A c \in Calls :
    Extracted(c)
    => LET data == Get(outcome[c].value.raw, KeyData)
           fieldErrors == outcome[c].value.fieldErrors
       IN /\ data.t = "map"
               => /\ Len(fieldErrors) = Len(data.e)
                  /\ \A i \in 1..Len(data.e) :
                       fieldErrors[i] = Str(data.e[i].k \o <<":", " ">> \o DetailOf(data.e[i].v))
          /\ data.t = "array"
               => /\ Len(fieldErrors) = Len(data.a)
                  /\ \A i \in 1..Len(data.a) :
                       fieldErrors[i] = Str(NatChars(i - 1) \o <<":", " ">> \o DetailOf(data.a[i]))
          /\ data.t \notin {"map", "array"} => fieldErrors = <<>>
          /\ data = Map(<<Entry(<<"t", "i", "t", "l", "e">>, Map(<<Entry(KeyCode, Str(<<"x">>))>>))>>)
               => fieldErrors = <<Str(<<"t", "i", "t", "l", "e", ":", " ", "{", "\"", "c", "o", "d", "e", "\"", ":", "\"", "x", "\"", "}">>)>>
          /\ data = Map(<<Entry(<<"t", "i", "t", "l", "e">>, Null)>>) => fieldErrors = <<Str(<<"t", "i", "t", "l", "e", ":", " ", "n", "u", "l", "l">>)>>

\* C16 witness: the body of a response names two fields, one with a message
\* and one with a string
C16_Witness ==
  \E c \in Calls :
    /\ Extracted(c)
    /\ Get(Get(Get(args[c], KeyResponse), KeyBody), KeyData)
         = Map(<<Entry(<<"t", "i", "t", "l", "e">>, Map(<<Entry(KeyMessage, Str(<<"R", "e", "q", "u", "i", "r", "e", "d">>))>>)),
                 Entry(<<"c", "o", "u", "n", "t">>, Str(<<"m", "u", "s", "t", " ", "b", "e", " ", "n", "u", "m", "b", "e", "r">>))>>)
    /\ outcome[c].value.fieldErrors
         = <<Str(<<"t", "i", "t", "l", "e", ":", " ", "R", "e", "q", "u", "i", "r", "e", "d">>), Str(<<"c", "o", "u", "n", "t", ":", " ", "m", "u", "s", "t", " ", "b", "e", " ", "n", "u", "m", "b", "e", "r">>)>>

\* the names the redaction is stated for, in lower case
StatedSensitive == {toLowerCase(k) : k \in SENSITIVE_KEYS}

\* the redaction as stated: down to the depth limit, a member whose name is
\* one of the sensitive names in any letter case becomes '[REDACTED]', every
\* other member keeps its redacted value
RECURSIVE StatedRedaction(_, _)
StatedRedaction(value, depth) ==
  IF depth > RedactDepthLimit THEN value
  ELSE IF value.t = "array"
  THEN Array([i \in 1..Len(value.a) |-> StatedRedaction(value.a[i], depth + 1)])
  ELSE IF value.t # "map" THEN value
  ELSE Map([i \in 1..Len(value.e) |->
              IF toLowerCase(value.e[i].k) \in StatedSensitive
              THEN Entry(value.e[i].k, Str(RedactedText))
              ELSE Entry(value.e[i].k, StatedRedaction(value.e[i].v, depth + 1))])

\* c is a finished call of buildDebugInfo
Debugged(c) == pc[c] = "done" /\ op[c] = "buildDebugInfo"

\* C17: in the body and the headers of the debug information, at every layer
\* down to the depth limit, the value of every member named password,
\* adminPassword, apiToken, token, authorization or auth, in any letter case,
\* is '[REDACTED]', and every other member keeps its redacted value.
C17_SensitiveKeysRedacted ==
  \A c \in Calls :
    Debugged(c)
    => /\ Get(outcome[c].value, KeyBody)
            = StatedRedaction(Coalesce(<<Get(args[c], KeyBody), Map(<<>>)>>), 0)
       /\ Get(outcome[c].value, KeyHeaders)
            = StatedRedaction(Coalesce(<<Get(args[c], KeyHeaders), Map(<<>>)>>), 0)

\* c is a finished call of normalizeFields
Normalized(c) == pc[c] = "done" /\ op[c] = "normalizeFields"

\* what a string member becomes by the stated rules, in their order: blank
\* stays; true and false in any letter case; null; a strict decimal number;
\* text in braces or brackets is parsed when it can be; anything else stays
StatedCoercion(value) ==
  Only({IF trimmed = <<>> THEN Str(value)
        ELSE IF toLowerCase(trimmed) = <<"t", "r", "u", "e">> THEN Bool(TRUE)
        ELSE IF toLowerCase(trimmed) = <<"f", "a", "l", "s", "e">> THEN Bool(FALSE)
        ELSE IF trimmed = <<"n", "u", "l", "l">> THEN Null
        ELSE IF numberPattern(trimmed) THEN DecimalLiteral(trimmed).value
        ELSE IF Delimited(trimmed, "{", "}") \/ Delimited(trimmed, "[", "]")
        THEN ParsedOr(JSONparse(trimmed), value)
        ELSE Str(value) :
        trimmed \in {trim(value)}})

\* the stated rules, with null in any letter case
StatedCoercionAnyCaseNull(value) ==
  IF toLowerCase(trim(value)) = <<"n", "u", "l", "l">> THEN Null ELSE StatedCoercion(value)

\* after is before with every string reached through arrays and objects
\* converted by rule (null in any letter case when anyCase)
RECURSIVE Coerced(_, _, _)
Coerced(before, after, anyCase) ==
  CASE before.t = "string"
         -> after = (IF anyCase THEN StatedCoercionAnyCaseNull(before.s)
                     ELSE StatedCoercion(before.s))
    [] before.t = "array"
         -> /\ after.t = "array"
            /\ Len(after.a) = Len(before.a)
            /\ \A i \in 1..Len(before.a) : Coerced(before.a[i], after.a[i], anyCase)
    [] before.t = "map"
         -> /\ after.t = "map"
            /\ Len(after.e) = Len(before.e)
            /\ \A i \in 1..Len(before.e) :
                 /\ after.e[i].k = before.e[i].k
                 /\ Coerced(before.e[i].v, after.e[i].v, anyCase)
    [] OTHER -> TRUE

\* C18: with coercion enabled every string reached through arrays and
\* objects is converted by the rules, in order: blank stays; true and false
\* in any letter case become booleans; null becomes null; a strict decimal
\* number becomes a number; text in braces or brackets becomes its JSON
\* parse, or stays when parsing fails; anything else stays. With coercion
\* disabled every value is returned unchanged.
C18_CoercionRules ==
  \A c \in Calls :
    Normalized(c)
    => IF args[c].coerce
       THEN Coerced(Map(Defined(args[c].fields.e)), outcome[c].value, FALSE)
       ELSE outcome[c].value = Map(Defined(args[c].fields.e))

\* the fields and the result of the test 'normalizeFields coerces basic types'
TestFields ==
  Map(<<Entry(<<"a", "c", "t", "i", "v", "e">>, Str(<<"t", "r", "u", "e">>)), Entry(<<"c", "o", "u", "n", "t">>, Str(<<"1", "2", "3">>)),
        Entry(<<"m", "e", "t", "a">>, Str(<<"{", "\"", "h", "e", "l", "l", "o", "\"", ":", " ", "\"", "w", "o", "r", "l", "d", "\"", "}">>)), Entry(<<"l", "i", "s", "t">>, Str(<<"[", "1", ",", "2", "]">>)),
        Entry(<<"b", "l", "a", "n", "k">>, Str(<<" ", " ">>)), Entry(<<"n", "i", "l">>, Str(<<"n", "u", "l", "l">>)),
        Entry(<<"n", "e", "s", "t", "e", "d">>, Map(<<Entry(<<"o", "k">>, Str(<<"f", "a", "l", "s", "e">>))>>))>>)

TestCoerced ==
  Map(<<Entry(<<"a", "c", "t", "i", "v", "e">>, Bool(TRUE)), Entry(<<"c", "o", "u", "n", "t">>, Num(123)),
        Entry(<<"m", "e", "t", "a">>, Map(<<Entry(<<"h", "e", "l", "l", "o">>, Str(<<"w", "o", "r", "l", "d">>))>>)),
        Entry(<<"l", "i", "s", "t">>, Array(<<Num(1), Num(2)>>)),
        Entry(<<"b", "l", "a", "n", "k">>, Str(<<" ", " ">>)), Entry(<<"n", "i", "l">>, Null),
        Entry(<<"n", "e", "s", "t", "e", "d">>, Map(<<Entry(<<"o", "k">>, Bool(FALSE))>>))>>)

\* the result for a single member f
OfText(c, text, value) ==
  args[c].fields = Map(<<Entry(<<"f">>, Str(text))>>)
    => outcome[c].value = Map(<<Entry(<<"f">>, value)>>)

\* C18, amended: as C18, with null, like true and false, in any letter case.
C18_CoercionRulesAnyCaseNull ==
  \A c \in Calls :
    Normalized(c)
    => IF args[c].coerce
       THEN /\ Coerced(Map(Defined(args[c].fields.e)), outcome[c].value, TRUE)
            /\ args[c].fields = TestFields => outcome[c].value = TestCoerced
            /\ OfText(c, <<" ", "T", "r", "u", "e", " ">>, Bool(TRUE))
            /\ OfText(c, <<"N", "U", "L", "L">>, Null)
            /\ OfText(c, <<"1", ".", "5", "0">>, [t |-> "number", n |-> 15, scale |-> 1])
            /\ OfText(c, <<"-", "0", ".", "2", "5">>, [t |-> "number", n |-> -25, scale |-> 2])
            /\ OfText(c, <<"0", "0", "7">>, Str(<<"0", "0", "7">>))
            /\ OfText(c, <<"1", "e", "3">>, Str(<<"1", "e", "3">>))
            /\ OfText(c, <<"1", ".">>, Str(<<"1", ".">>))
            /\ OfText(c, <<" ", "[", "1", ",", "2", "]", " ">>, Array(<<Num(1), Num(2)>>))
            /\ OfText(c, <<"[", "1", ",", "]">>, Str(<<"[", "1", ",", "]">>))
            /\ OfText(c, <<"{", "b", "a", "d", "}">>, Str(<<"{", "b", "a", "d", "}">>))
            /\ OfText(c, <<"{", "\"", "a", "\"", ":", "{", "\"", "b", "\"", ":", "[", "t", "r", "u", "e", ",", "n", "u", "l", "l", ",", "-", "1", ".", "5", ",", "\"", "x", "\"", "]", "}", "}">>,
                      Map(<<Entry(<<"a">>, Map(<<Entry(<<"b">>,
                        Array(<<Bool(TRUE), Null, [t |-> "number", n |-> -15, scale |-> 1],
                                Str(<<"x">>)>>))>>))>>))
            /\ OfText(c, <<"[", "\"", "q", "\\", "\"", "t", "\"", ",", "\"", "b", "\\", "\\", "s", "\"", "]">>, Array(<<Str(<<"q", "\"", "t">>), Str(<<"b", "\\", "s">>)>>))
            /\ OfText(c, <<"[", "1", "e", "2", ",", "2", "E", "-", "1", "]">>, Array(<<Num(100), [t |-> "number", n |-> 2, scale |-> 1]>>))
       ELSE outcome[c].value = Map(Defined(args[c].fields.e))

\* C18 witness: the fields of the test, coerced
C18_Witness ==
  \E c \in Calls :
    /\ Normalized(c)
    /\ args[c].coerce
    /\ args[c].fields = TestFields
    /\ outcome[c].value = TestCoerced

\* c is a finished call of buildFormData
Formed(c) == pc[c] = "done" /\ op[c] = "buildFormData"

\* a value made of null, booleans, numbers, strings, arrays and objects only
RECURSIVE PlainJson(_)
PlainJson(v) ==
  CASE v.t \in {"null", "boolean", "number", "string"} -> TRUE
    [] v.t = "array" -> \A i \in 1..Len(v.a) : PlainJson(v.a[i])
    [] v.t = "map" -> \A i \in 1..Len(v.e) : PlainJson(v.e[i].v)
    [] OTHER -> FALSE

\* C19: buildFormData leaves out the undefined members, writes null as the
\* empty string, an object or array as its JSON text without blanks, any
\* other scalar as its string; and coercing the form value of a member that
\* is an object or array of JSON values gives that member back.
C19_FormRoundTrip ==
  \A c \in Calls :
    Formed(c)
    => LET given == Defined(args[c].e)
           form == outcome[c].value.e
       IN /\ Len(form) = Len(given)
          /\ \A i \in 1..Len(given) :
               LET value == given[i].v IN
               /\ form[i].k = given[i].k
               /\ form[i].v.t = "string"
               /\ value.t = "null" => form[i].v.s = <<>>
               /\ value.t = "boolean" => form[i].v.s = (IF value.b THEN <<"t", "r", "u", "e">> ELSE <<"f", "a", "l", "s", "e">>)
               /\ value.t = "string" => form[i].v.s = value.s
               /\ value.t = "number" => DecimalLiteral(form[i].v.s) = Read(value, <<>>)
               /\ value.t \in {"map", "array"}
                    => /\ form[i].v = JSONstringify(value)
                       /\ PlainJson(value) => coerceValue(form[i].v, TRUE) = value
          /\ Get(args[c], <<"m", "e", "t", "a">>) = Map(<<Entry(<<"o", "k">>, Bool(TRUE))>>)
               => Get(outcome[c].value, <<"m", "e", "t", "a">>) = Str(<<"{", "\"", "o", "k", "\"", ":", "t", "r", "u", "e", "}">>)
          /\ Get(args[c], <<"l", "i", "s", "t">>) = Array(<<Num(1), Num(2)>>)
               => Get(outcome[c].value, <<"l", "i", "s", "t">>) = Str(<<"[", "1", ",", "2", "]">>)
          /\ Get(args[c], <<"n">>) = [t |-> "number", n |-> -5, scale |-> 2]
               => Get(outcome[c].value, <<"n">>) = Str(<<"-", "0", ".", "0", "5">>)

\* C19 witness: an object holding an array with a string that needs
\* escaping, its JSON text as the form value
C19_Witness ==
  \E c \in Calls :
    /\ Formed(c)
    /\ args[c] = Map(<<Entry(<<"x">>, Map(<<Entry(<<"i", "n">>, Array(<<Str(<<"q", "\"", "t">>)>>))>>))>>)
    /\ outcome[c].value = Map(<<Entry(<<"x">>, Str(<<"{", "\"", "i", "n", "\"", ":", "[", "\"", "q", "\\", "\"", "t", "\"", "]", "}">>))>>)
    /\ coerceValue(Get(outcome[c].value, <<"x">>), TRUE) = Get(args[c], <<"x">>)

\* c is a finished call of buildUrl on a normalised base URL
Composed(c) == pc[c] = "done" /\ op[c] = "buildUrl"

\* the endpoint starts with a scheme and two slashes
HasScheme(endpoint) ==
  /\ Len(endpoint) >= 3
  /\ endpoint[1] \in {"http:", "https:", "HTTP:", "ftp:"}
  /\ endpoint[2] = "/"
  /\ endpoint[3] = "/"

DoubleSlash(path) == \E i \in 1..(Len(path) - 1) : path[i] = "/" /\ path[i + 1] = "/"

\* C20: for an endpoint that is no absolute URL, the composed URL is the base
\* without its trailing slashes followed by a path that starts with /api/,
\* the prefix being added when the endpoint lacks it and not repeated when it
\* has it, and the path has no two slashes in a row; an endpoint that is an
\* absolute URL comes back unchanged.
C20_ComposedUrl ==
  \A c \in Calls :
    Composed(c)
    => LET endpoint == args[c].endpoint
           path == <<"/", "api", "/">> \o ApiPath(endpoint)
       IN IF HasScheme(endpoint)
          THEN outcome[c].value = endpoint
          ELSE /\ UrlIs(outcome[c].value, args[c].baseUrl, path)
               /\ ~DoubleSlash(path)

\* C20, amended: an endpoint that starts with http:// or https:// comes back
\* unchanged; for any other endpoint the composed URL is the base without
\* its trailing slashes followed by a path that starts with /api/, the
\* prefix being added when the endpoint lacks it and not repeated when it has
\* it, and the path has two slashes in a row only if the endpoint has.
C20_ComposedUrlJoinAddsNoSlash ==
  \A c \in Calls :
    Composed(c)
    => LET endpoint == args[c].endpoint
           path == <<"/", "api", "/">> \o ApiPath(endpoint)
       IN IF IsAbsolute(endpoint)
          THEN outcome[c].value = endpoint
          ELSE /\ UrlIs(outcome[c].value, args[c].baseUrl, path)
               /\ DoubleSlash(path) <=> DoubleSlash(endpoint)

\* C20 witness: a base with two trailing slashes and an endpoint that has
\* the prefix but no leading slash
C20_Witness ==
  \E c \in Calls :
    /\ Composed(c)
    /\ args[c] = [baseUrl |-> BaseA \o <<"/", "/">>, endpoint |-> <<"api", "/", "x">>]
    /\ outcome[c].value = BaseA \o <<"/", "api", "/", "x">>


\* the names of the members of an object, in order
KeysOf(entry) == [i \in 1..Len(entry.e) |-> entry.e[i].k]

\* an entry with the keys error, code, statusCode, fieldErrors and raw
IsErrorEntry(entry) ==
  /\ entry.t = "map"
  /\ Len(entry.e) = 5
  /\ {entry.e[i].k : i \in 1..Len(entry.e)}
       = {KeyError, KeyCode, KeyStatusCode, KeyFieldErrors, KeyRaw}

\* entries is made of one error entry for each item that failed and of the
\* entries each other item pushed, in the order of the items
RECURSIVE OneEntryPerFailure(_, _)
OneEntryPerFailure(results, entries) ==
  IF results = <<>> THEN entries = <<>>
  ELSE IF Head(results).threw
  THEN /\ entries # <<>>
       /\ IsErrorEntry(Head(entries))
       /\ OneEntryPerFailure(Tail(results), Tail(entries))
  ELSE /\ Len(entries) >= Len(Head(results).pushed)
       /\ SubSeq(entries, 1, Len(Head(results).pushed)) = Head(results).pushed
       /\ OneEntryPerFailure(Tail(results),
                             SubSeq(entries, Len(Head(results).pushed) + 1, Len(entries)))

ExpiryKnown(token) ==
  /\ Len(token.s) >= 2
  /\ token.s[2].parse = "object"
  /\ token.s[2].exp.t = "number"

\* C22: a resolution in admin or collection mode never returns a token whose
\* known expiry is 30 seconds or less after the time of the return, or
\* before it, be the token taken from the cache or from a login call.
C22_NoTokenNearExpiry ==
  [][\A c \in Calls :
       (/\ resolved[c].kind # "returned"
        /\ resolved'[c].kind = "returned"
        /\ credentials'[c].authType \in {"admin", "collection"}
        /\ resolved'[c].value.t = "string"
        /\ ExpiryKnown(resolved'[c].value))
       => resolved'[c].value.s[2].exp.n * 1000 - now' > 30000]_vars


\* the expiry the token carries, in milliseconds, when it carries one
StatedExpiry(token) ==
  IF ExpiryKnown(token) THEN Num(token.s[2].exp.n * 1000) ELSE Undefined

\* C23: when a login call resolves with a token, the resolution returns that
\* token whatever its second segment is, and the cache then holds under the
\* resolution's key, and under no other key of that resolution, exactly the
\* token and 1000 times the numeric exp of the second segment, or no expiry
\* when the segment is absent, is not JSON or has no numeric exp; an entry
\* without expiry is valid at every time.
C23_CacheEntryAfterLogin ==
  [][\A c \in Calls :
       (/\ pc[c] = "login"
        /\ Len(answers'[c]) = Len(answers[c]) + 1
        /\ LastAnswer(c)'.ok
        /\ HasToken(LastAnswer(c)'.response))
       => /\ resolved'[c] = Returned(LastAnswer(c)'.response.token)
          /\ \E key \in DOMAIN staticData' :
               /\ KeyOf(key, credentials[c])
               /\ \A other \in DOMAIN staticData' : KeyOf(other, credentials[c]) => other = key
               /\ staticData'[key]
                    = [t |-> "object", token |-> LastAnswer(c)'.response.token,
                       expiresAt |-> StatedExpiry(LastAnswer(c)'.response.token)]
               /\ ~ExpiryKnown(LastAnswer(c)'.response.token)
                    => \A t \in 0..MaxTicks : Valid(staticData'[key], t * TickMillis)]_vars

\* C23 witness: a login answered with a token whose second segment is not
\* JSON has ended with that token, stored without expiry, while the entry of
\* another key holds the expiry 60 000 of its token's exp of 60
C23_Witness ==
  \E c \in Calls :
    /\ pc[c] = "done"
    /\ answers[c] # <<>>
    /\ LastAnswer(c).ok
    /\ LastAnswer(c).response.token = Str(<<Seg("hdr"), Seg("bad"), Seg("sig")>>)
    /\ resolved[c] = Returned(LastAnswer(c).response.token)
    /\ \E key \in DOMAIN staticData, other \in DOMAIN staticData :
         /\ KeyOf(key, credentials[c])
         /\ staticData[key].token = LastAnswer(c).response.token
         /\ staticData[key].expiresAt = Undefined
         /\ other # key
         /\ staticData[other].token = Str(<<Seg("hdr"), Payload("b", Num(60))>>)
         /\ staticData[other].expiresAt = Num(60000)


\* both login calls of an admin resolution were made and neither gave a
\* response: the first was rejected, the second was rejected or resolved
\* with nothing
BothAttemptsFailed(c) ==
  /\ InMode(c, "admin")
  /\ pc[c] = "done"
  /\ Len(answers[c]) = 2
  /\ ~answers[c][1].ok
  /\ (answers[c][2].ok => answers[c][2].response.t = "undefined")

\* C24 as stated: an admin resolution makes at most two login calls, and when
\* both were made and neither gave a response it fails with a NodeApiError
\* that carries the error of the second call.
C24_CarriesLastAttemptError ==
  \A c \in Calls :
    /\ InMode(c, "admin") => Len(logins[c]) <= 2
    /\ BothAttemptsFailed(c)
         => /\ resolved[c].kind = "thrown"
            /\ resolved[c].type = "NodeApiError"
            /\ ~answers[c][2].ok
            /\ resolved[c].cause = answers[c][2].error

\* C24: an admin resolution makes at most two login calls, and when both
\* were made and neither gave a response it fails with a NodeApiError that
\* carries the error caught last: the error of the second call when that
\* call was rejected, the error of the first call when the second resolved
\* with nothing.
C24_CarriesLastCaughtError ==
  \A c \in Calls :
    /\ InMode(c, "admin") => Len(logins[c]) <= 2
    /\ BothAttemptsFailed(c)
         => /\ resolved[c].kind = "thrown"
            /\ resolved[c].type = "NodeApiError"
            /\ resolved[c].cause = IF answers[c][2].ok THEN answers[c][1].error
                                   ELSE answers[c][2].error

\* C24 witness: an admin resolution whose first call was rejected with 404
\* and whose second call was rejected with 410 has failed with the second
\* error
C24_Witness ==
  \E c \in Calls :
    /\ BothAttemptsFailed(c)
    /\ answers[c][1] = [ok |-> FALSE, error |-> StatusError(Num(404))]
    /\ answers[c][2] = [ok |-> FALSE, error |-> StatusError(Num(410))]
    /\ Len(logins[c]) = 2
    /\ resolved[c].kind = "thrown"
    /\ resolved[c].cause = StatusError(Num(410))


\* the keys of the store that are the cache key of cred
KeysOfCredential(cred) == {key \in DOMAIN staticData : Len(key) = 4 /\ KeyOf(key, cred)}

\* the step is the end of a login of c that gave a token
LoginSucceeds(c) ==
  /\ pc[c] = "login"
  /\ Len(answers'[c]) = Len(answers[c]) + 1
  /\ LastAnswer(c)'.ok
  /\ HasToken(LastAnswer(c)'.response)

\* C25: the store holds at most one entry for an auth mode and a base URL
\* without its trailing slashes; no step removes a key from the store; a
\* login that gave a token leaves under the key of its resolution the entry
\* of that token, be the key new or not; every other member of the store,
\* cache entry or not, is left as it was by every step.
C25_OneEntryPerKeyNeverDeleted ==
  [][/\ \A cred \in CredentialConfigs : Cardinality(KeysOfCredential(cred)') <= 1
     /\ \A key \in DOMAIN staticData : key \in DOMAIN staticData'
     /\ \A c \in Calls :
          LoginSucceeds(c)
          => \E key \in DOMAIN staticData' :
               /\ KeyOf(key, credentials[c])
               /\ staticData'[key].token = LastAnswer(c)'.response.token
     /\ \A key \in DOMAIN staticData' :
          (key \notin DOMAIN staticData \/ staticData'[key] # staticData[key])
          => \E c \in Calls : LoginSucceeds(c) /\ Len(key) = 4 /\ KeyOf(key, credentials[c])]_vars

\* C25 witness: the entry left by an earlier execution was overwritten by a
\* login, another key got its first entry, and the data of another owner is
\* still there
C25_Witness ==
  /\ OtherKey \in DOMAIN staticData
  /\ staticData[OtherKey] = StoredData[OtherKey]
  /\ staticData[cacheKey("admin", BaseA)].token # StoredData[cacheKey("admin", BaseA)].token
  /\ cacheKey("collection", BaseB) \in DOMAIN staticData
  /\ Cardinality(DOMAIN staticData) = 3


\* the cache entry a login that gave this token writes
EntryOf(token) == [t |-> "object", token |-> token, expiresAt |-> StatedExpiry(token)]

\* the step takes c from its call to its first login call or to its end
ResolutionStarts(c) == pc[c] = "idle" /\ pc'[c] # "idle"

\* C26: with two resolutions in flight on one cache key, (1) a resolution
\* that finds no valid entry makes its login call whether or not the other
\* has one in flight; (2) a resolution that returns a token returns the token
\* of the entry it read, valid at that time, or the token its own login call
\* resolved with; (3) a login that gave a token leaves under the key the
\* whole entry of that token, no other step touches the store, and so the
\* entry is at all times the token and the expiry of one login, the one that
\* ended last.
C26_ConcurrentResolutions ==
  [][/\ \A c \in Calls :
          (/\ ResolutionStarts(c)
           /\ \A key \in DOMAIN staticData :
                KeyOf(key, credentials'[c]) => ~Valid(staticData[key], now))
          => /\ pc'[c] = "login"
             /\ Len(logins'[c]) = 1
     /\ \A c \in Calls :
          (resolved[c].kind # "returned" /\ resolved'[c].kind = "returned")
          => \/ /\ ResolutionStarts(c)
                /\ logins'[c] = <<>>
                /\ \E key \in DOMAIN staticData :
                     /\ KeyOf(key, credentials'[c])
                     /\ Valid(staticData[key], now)
                     /\ resolved'[c].value = staticData[key].token
             \/ /\ LoginSucceeds(c)
                /\ resolved'[c].value = LastAnswer(c)'.response.token
     /\ \A c \in Calls :
          LoginSucceeds(c)
          => \E key \in DOMAIN staticData' :
               /\ KeyOf(key, credentials[c])
               /\ staticData'[key] = EntryOf(LastAnswer(c)'.response.token)
     /\ (\A c \in Calls : ~LoginSucceeds(c)) => staticData' = staticData
     /\ \A key \in DOMAIN staticData' :
          staticData'[key] = EntryOf(staticData'[key].token)]_vars

\* C26 witness: both resolutions made a login call on the key of BaseA, one
\* with the trailing slash and one without, each returned the token of its
\* own login, the two tokens differ, and the store holds the whole entry of
\* the second, whose login ended after the other had returned
C26_Witness ==
  /\ pc["c1"] = "done"
  /\ pc["c2"] = "done"
  /\ credentials["c1"].baseUrl # credentials["c2"].baseUrl
  /\ Len(logins["c1"]) = 1
  /\ Len(logins["c2"]) = 1
  /\ resolved["c1"] = Returned(Str(JwtToken("a", Num(40))))
  /\ resolved["c2"] = Returned(Str(<<Seg("opaque")>>))
  /\ DOMAIN staticData = {cacheKey("admin", BaseA)}
  /\ staticData[cacheKey("admin", BaseA)]
       = [t |-> "object", token |-> Str(<<Seg("opaque")>>), expiresAt |-> Undefined]


\* the members of an object given as argument, none when it is not given
MembersOf(v) == IF v.t = "object" THEN (DOMAIN v) \ {"t"} ELSE {}

\* C27: a request handed to helpers.httpRequest has a query only when the
\* query given to pocketBaseRequest has a member, and it is that query; it
\* has a body only when no form data was given in the options, and it is
\* the body given; it never has both a body and form data.
C27_QueryAndBodyAttachment ==
  \A c \in Calls :
    \A i \in 1..Len(sent[c]) :
      LET request == sent[c][i] IN
      /\ "qs" \in DOMAIN request
           => MembersOf(args[c].qs) # {} /\ request.qs = args[c].qs
      /\ "body" \in DOMAIN request
           => /\ "formData" \notin MembersOf(args[c].extraOptions)
              /\ request.body = args[c].body
      /\ ~("body" \in DOMAIN request /\ "formData" \in DOMAIN request)

\* C27 witness: a call given a body, an empty query and form data has handed
\* over a request with the form data and neither body nor query
C27_Witness ==
  \E c \in Calls :
    /\ Len(sent[c]) = 1
    /\ args[c].body = [t |-> "object", title |-> Str(<<"x">>)]
    /\ args[c].qs = [t |-> "object"]
    /\ "formData" \in MembersOf(args[c].extraOptions)
    /\ sent[c][1].formData = args[c].extraOptions.formData
    /\ "body" \notin DOMAIN sent[c][1]
    /\ "qs" \notin DOMAIN sent[c][1]


\* the step is one of the resolution of c: its start or the end of one of
\* its login calls
ResolutionStep(c) ==
  \/ ResolutionStarts(c)
  \/ pc[c] = "login" /\ Len(answers'[c]) = Len(answers[c]) + 1

\* C28: a step of a resolution that does not end it with a token, be it the
\* start, a login call rejected and followed by the fallback, or the failure
\* itself, leaves the store as it was, and so does every step that is not of
\* a resolution; hence a resolution that fails leaves every entry, expired
\* or not, as it found it.
C28_FailedResolutionLeavesCache ==
  [][/\ \A c \in Calls :
          (ResolutionStep(c) /\ resolved'[c].kind # "returned")
          => staticData' = staticData
     /\ \A c \in Calls :
          (resolved[c].kind # "thrown" /\ resolved'[c].kind = "thrown")
          => staticData' = staticData
     /\ (\A c \in Calls : ~ResolutionStep(c)) => staticData' = staticData]_vars

\* C28 witness: an admin resolution that found the expired entry of an
\* earlier execution made both login calls, the second answered without a
\* token, and failed; the expired entry and the other data are still there
C28_Witness ==
  \E c \in Calls :
    /\ pc[c] = "done"
    /\ credentials[c].authType = "admin"
    /\ Len(logins[c]) = 2
    /\ LastAnswer(c).ok
    /\ ~HasToken(LastAnswer(c).response)
    /\ resolved[c].kind = "thrown"
    /\ resolved[c].type = "NodeOperationError"
    /\ staticData = StoredData
    /\ ~Valid(staticData[cacheKey("admin", BaseA)], now)


\* c is a call of pocketBaseRequest that resolves a token
ResolvesToken(c) == op[c] = "pocketBaseRequest" /\ ~SkipsAuth(c)

\* C29: in a call of pocketBaseRequest without skipAuth the data request is
\* handed over in the step in which getAuthToken returns, after its cache
\* read, its login calls and its cache write, and nothing of the resolution
\* happens while the request is out; while a login call is out no request
\* has been handed over, and when getAuthToken threw none ever is: the call
\* ends with that error.
C29_ResolutionBeforeRequest ==
  [][\A c \in Calls :
       /\ ResolvesToken(c)'
            => /\ pc'[c] = "login" => sent'[c] = <<>>
               /\ sent'[c] # <<>> => resolved'[c].kind = "returned"
               /\ resolved'[c].kind = "thrown"
                    => /\ sent'[c] = <<>>
                       /\ pc'[c] = "done"
                       /\ outcome'[c] = resolved'[c]
       /\ (ResolvesToken(c)' /\ sent[c] = <<>> /\ sent'[c] # <<>>)
            => /\ resolved[c].kind # "returned"
               /\ pc'[c] = "send"
               /\ credentials'[c].authType \in {"admin", "collection"}
                    => /\ cacheOps'[c][1] = "read"
                       /\ Len(logins'[c]) = Len(answers'[c])
                       /\ logins'[c] # <<>> => cacheOps'[c] = <<"read", "write">>
       /\ (ResolvesToken(c) /\ sent[c] # <<>> /\ sent'[c] # <<>>)
            => /\ logins'[c] = logins[c]
               /\ answers'[c] = answers[c]
               /\ cacheOps'[c] = cacheOps[c]
               /\ staticData' = staticData]_vars

\* C29 witness: a call without skipAuth in collection mode read the cache,
\* made its login call, wrote the cache and only then handed over the data
\* request, which carries the token of that login
C29_Witness ==
  \E c \in Calls :
    /\ ResolvesToken(c)
    /\ pc[c] = "send"
    /\ credentials[c].authType = "collection"
    /\ Len(logins[c]) = 1
    /\ cacheOps[c] = <<"read", "write">>
    /\ Len(sent[c]) = 1
    /\ resolved[c] = Returned(Str(JwtToken("a", Num(40))))
    /\ sent[c][1].headers.Authorization = Bearer(resolved[c].value)


\* C30: a token returned by a resolution in admin or collection mode is a
\* token of the identity of that resolution's credentials.
C30_TokenOfOwnCredentials ==
  \A c \in Calls :
    (/\ pc[c] = "done"
     /\ op[c] = "getAuthToken"
     /\ credentials[c].authType \in {"admin", "collection"}
     /\ resolved[c].kind = "returned")
    => resolved[c].value.s[2].id = credentials[c].identity

====
